---- MODULE Spec2Model ----
(***************************************************************************)
(* Model of the recurring newsletter-to-podcast job of                     *)
(* synthesis/src/controllers/userController.ts: the bounded-concurrency    *)
(* executor mapWithConcurrency, the schedule calculator, the per-          *)
(* subscription pipeline processNewsletter and the orchestrator            *)
(* jobsController.createUsersPodcasts.                                     *)
(*                                                                         *)
(* JavaScript runs every continuation to its next await before any other   *)
(* I/O completion is handled.  The model keeps that: an action is either   *)
(* the completion of one external call (store, mail provider, extractor,   *)
(* synthesis) together with all the code that runs until the next await,   *)
(* or one step of the orchestrator's loops, which are taken before any     *)
(* further completion is handled.                                          *)
(***************************************************************************)
EXTENDS Integers, Sequences, FiniteSets, TLC

\* ------------------------------------------------------------------ bounds
\* Largest input length and concurrency argument tried on mapWithConcurrency
\* alone.
MaxN == 3
MaxK == 3
\* Users in the store, Newsletter rows in the store, and the most message ids
\* one provider list call returns.
MaxUsers == 2
MaxSubs == 5
MaxMsgs == 2

\* ------------------------------------------------------------ small helpers
Max2(a, b) == IF a >= b THEN a ELSE b
Min2(a, b) == IF a <= b THEN a ELSE b

\* The hole of a JavaScript array slot never assigned (new Array(n)).
Empty == "<empty>"

\* ------------------------------------------------------- mapWithConcurrency
\* One call of mapWithConcurrency is a record
\*   items     the input array (items[i+1] is the element of index i)
\*   results   the results array, indexed from 0, Empty where never assigned
\*   nextIndex the shared cursor
\*   workers   one record per worker: st is "awaiting" (its mapper promise is
\*             pending, for index current), "returned" or "rejected"
\*   invoked   how many times the mapper was called for each index
\*   completed the indices whose mapper promise was fulfilled, oldest first
\*   failures  the errors of the mapper promises that rejected, oldest first
\*   settled   the state of Promise.all(workers): "pending", "fulfilled" or
\*             "rejected"; error is its rejection reason
Err(what, id) == [what |-> what, id |-> id]
NoError == Err("none", -1)

\* const results = new Array(items.length); let nextIndex = 0;
FreshCall(items) ==
  [ items     |-> items,
    results   |-> [i \in 0..(Len(items) - 1) |-> Empty],
    nextIndex |-> 0,
    workers   |-> << >>,
    invoked   |-> [i \in 0..(Len(items) - 1) |-> 0],
    completed |-> << >>,
    failures  |-> << >>,
    settled   |-> "pending",
    error     |-> NoError ]

\* Mutation: one worker too many.
WorkerCountPlusOne(concurrency) == Max2(1, concurrency) + 1

\* Math.max(1, concurrency): the number of workers Array.from creates.
WorkerCount(concurrency) == Max2(1, concurrency)

\* Mutation: const current = ++nextIndex.
ClaimPreIncrement(call, w) ==
  LET current == call.nextIndex + 1
      claimed == [call EXCEPT !.nextIndex = current]
  IN  IF current >= Len(call.items)
        THEN [claimed EXCEPT !.workers[w] = [st |-> "returned", current |-> current]]
        ELSE [claimed EXCEPT !.workers[w] = [st |-> "awaiting", current |-> current],
                             !.invoked[current] = @ + 1]

\* The head of a worker's loop: const current = nextIndex++; return when
\* current >= items.length, else call the mapper for that index and await it.
Claim(call, w) ==
  LET current == call.nextIndex
      claimed == [call EXCEPT !.nextIndex = current + 1]
  IN  IF current >= Len(call.items)
        THEN [claimed EXCEPT !.workers[w] = [st |-> "returned", current |-> current]]
        ELSE [claimed EXCEPT !.workers[w] = [st |-> "awaiting", current |-> current],
                             !.invoked[current] = @ + 1]

\* Promise.all(workers): fulfilled once every worker has returned, rejected
\* with the reason of the first worker that rejects.
PromiseAll(call) ==
  IF call.settled = "pending" /\ \A w \in DOMAIN call.workers : call.workers[w].st = "returned"
    THEN [call EXCEPT !.settled = "fulfilled"]
    ELSE call

\* Array.from({ length }, async () => {...}) runs each worker, in turn, up to
\* its first await.
RECURSIVE StartWorkers(_, _, _)
StartWorkers(call, w, count) ==
  IF w > count
    THEN call
    ELSE StartWorkers(Claim([call EXCEPT !.workers = Append(@, [st |-> "idle", current |-> -1])], w),
                      w + 1, count)

\* The call of mapWithConcurrency up to its await Promise.all(workers).
NewCall(items, concurrency) ==
  PromiseAll(StartWorkers(FreshCall(items), 1, WorkerCount(concurrency)))

\* Mutation: results.push(value), which orders the results by completion.
OpFulfilInCompletionOrder(call, w, value) ==
  LET current == call.workers[w].current
  IN  PromiseAll(Claim([call EXCEPT !.results[Len(call.completed)] = value,
                                    !.completed = Append(@, current)], w))

\* The mapper promise worker w awaits is fulfilled with value:
\* results[current] = value, then the loop claims again.
OpFulfil(call, w, value) ==
  LET current == call.workers[w].current
  IN  PromiseAll(Claim([call EXCEPT !.results[current] = value,
                                    !.completed = Append(@, current)], w))

\* Mutation: the worker catches the rejection and goes on claiming.
OpRejectSwallowed(call, w, err) ==
  PromiseAll(Claim([call EXCEPT !.failures = Append(@, err)], w))

\* The mapper promise worker w awaits is rejected: the worker's promise
\* rejects, and so does Promise.all unless it is settled already.
OpReject(call, w, err) ==
  LET failed == [call EXCEPT !.workers[w].st = "rejected", !.failures = Append(@, err)]
  IN  IF call.settled = "pending"
        THEN [failed EXCEPT !.settled = "rejected", !.error = err]
        ELSE failed

\* What the caller's await mapWithConcurrency(...) gives once settled.
CallOutcome(call) ==
  CASE call.settled = "fulfilled" -> [kind |-> "return", value |-> call.results]
    [] call.settled = "rejected"  -> [kind |-> "throw", error |-> call.error]
    [] OTHER                      -> [kind |-> "pending"]

\* The indices whose mapper promise is pending.
InFlight(call) ==
  { call.workers[w].current : w \in { v \in DOMAIN call.workers : call.workers[v].st = "awaiting" } }

Awaiting(call) == { w \in DOMAIN call.workers : call.workers[w].st = "awaiting" }

\* ------------------------------------------------------------------- time
\* An instant (a JavaScript Date) is [day, ms]: the days since 1970-01-01 and
\* the milliseconds within that UTC day.  getTime() is day * MsPerDay + ms.
MsPerDay == 86400000

T(day, ms) == [day |-> day, ms |-> ms]

\* null (a lastRun never set).
NullDate == T(-1, -1)

Before(a, b) == a.day < b.day \/ (a.day = b.day /\ a.ms < b.ms)
AtOrAfter(a, b) == ~Before(a, b)

\* new Date(t.getTime() + delta), for 0 <= delta.
AddMs(t, delta) == T(t.day + ((t.ms + delta) \div MsPerDay), (t.ms + delta) % MsPerDay)

\* ECMAScript MakeDay for the proleptic Gregorian calendar: the day number of
\* year / month (0-based, may exceed 11) / date (1-based, may exceed the
\* month's length, which rolls over).
DayFromYearMonth(year, month0) ==
  LET ym  == year + (month0 \div 12)
      mn  == (month0 % 12) + 1
      y   == IF mn <= 2 THEN ym - 1 ELSE ym
      era == y \div 400
      yoe == y - era * 400
      mp  == IF mn > 2 THEN mn - 3 ELSE mn + 9
      doy == (153 * mp + 2) \div 5
      doe == yoe * 365 + (yoe \div 4) - (yoe \div 100) + doy
  IN  era * 146097 + doe - 719468

MakeDay(year, month0, date) == DayFromYearMonth(year, month0) + date - 1

\* getUTCFullYear / getUTCMonth (0-based) / getUTCDate of a day number.
Civil(day) ==
  LET z   == day + 719468
      era == z \div 146097
      doe == z - era * 146097
      yoe == (doe - (doe \div 1460) + (doe \div 36524) - (doe \div 146096)) \div 365
      doy == doe - (365 * yoe + (yoe \div 4) - (yoe \div 100))
      mp  == (5 * doy + 2) \div 153
      d   == doy - ((153 * mp + 2) \div 5) + 1
      m   == IF mp < 10 THEN mp + 3 ELSE mp - 9
      y   == yoe + era * 400 + (IF m <= 2 THEN 1 ELSE 0)
  IN  [year |-> y, month0 |-> m - 1, date |-> d]

\* new Date(Date.UTC(d.getUTCFullYear(), d.getUTCMonth(), d.getUTCDate(), 0, 0, 0, 0))
StartOfUtcDay(d) ==
  LET c == Civil(d.day) IN T(MakeDay(c.year, c.month0, c.date), 0)

\* Mutation: a date number past the end of the month stops at the month's last
\* day instead of rolling over.
SetUTCDatePlusClamped(t, n) ==
  LET c == Civil(t.day)
      len == DayFromYearMonth(c.year, c.month0 + 1) - DayFromYearMonth(c.year, c.month0)
  IN  T(MakeDay(c.year, c.month0, Min2(c.date + n, len)), t.ms)

\* next.setUTCDate(next.getUTCDate() + n): the time within the day is kept.
SetUTCDatePlus(t, n) ==
  LET c == Civil(t.day) IN T(MakeDay(c.year, c.month0, c.date + n), t.ms)

\* Mutation: a date number the next month does not have stops at that month's
\* last day instead of rolling over.
SetUTCMonthPlusOneClamped(t) ==
  LET c == Civil(t.day)
      len == DayFromYearMonth(c.year, c.month0 + 2) - DayFromYearMonth(c.year, c.month0 + 1)
  IN  T(MakeDay(c.year, c.month0 + 1, Min2(c.date, len)), t.ms)

\* next.setUTCMonth(next.getUTCMonth() + 1): same date number in the next
\* month, rolling over when that month is shorter.
SetUTCMonthPlusOne(t) ==
  LET c == Civil(t.day) IN T(MakeDay(c.year, c.month0 + 1, c.date), t.ms)

\* Mutation: the BIWEEKLY case adds 7 days.
AddIntervalFortnightAsWeek(from, interval) ==
  CASE interval = "WEEKLY"   -> SetUTCDatePlus(from, 7)
    [] interval = "BIWEEKLY" -> SetUTCDatePlus(from, 7)
    [] interval = "MONTHLY"  -> SetUTCMonthPlusOne(from)
    [] OTHER                 -> from

\* Mutation: the default case advances by a week.
AddIntervalDefaultWeekly(from, interval) ==
  CASE interval = "WEEKLY"   -> SetUTCDatePlus(from, 7)
    [] interval = "BIWEEKLY" -> SetUTCDatePlus(from, 14)
    [] interval = "MONTHLY"  -> SetUTCMonthPlusOne(from)
    [] OTHER                 -> SetUTCDatePlus(from, 7)

\* Mutation: the week is added with setUTCHours(getUTCHours() + 7).
AddIntervalWeekAsHours(from, interval) ==
  CASE interval = "WEEKLY"   -> AddMs(from, 7 * 60 * 60 * 1000)
    [] interval = "BIWEEKLY" -> SetUTCDatePlus(from, 14)
    [] interval = "MONTHLY"  -> SetUTCMonthPlusOne(from)
    [] OTHER                 -> from

AddInterval(from, interval) ==
  CASE interval = "WEEKLY"   -> SetUTCDatePlus(from, 7)
    [] interval = "BIWEEKLY" -> SetUTCDatePlus(from, 14)
    [] interval = "MONTHLY"  -> SetUTCMonthPlusOne(from)
    [] OTHER                 -> from

\* The day number of a calendar date (month 1..12), to write instants down.
Date(year, month, date) == MakeDay(year, month - 1, date)

\* ------------------------------------------------------------ the store
\* The Newsletter rows are written down by profile: row s has profile
\* ((s - 1) % 6) + 1 and belongs to user ((s - 1) % MaxUsers) + 1.
Jan15 == Date(2024, 1, 15)
HalfPastEight == (8 * 60 + 30) * 60 * 1000

Profile(p) ==
  CASE p = 1 -> [isActive |-> TRUE,  interval |-> "BIWEEKLY",
                 lastRun |-> T(Date(2024, 1, 1), 0), nextRun |-> T(Jan15, 0)]
    [] p = 2 -> [isActive |-> TRUE,  interval |-> "MONTHLY",
                 lastRun |-> NullDate, nextRun |-> T(Jan15, MsPerDay - 1)]
    [] p = 3 -> [isActive |-> TRUE,  interval |-> "WEEKLY",
                 lastRun |-> T(Date(2024, 1, 8), HalfPastEight),
                 nextRun |-> T(Jan15, HalfPastEight)]
    [] p = 4 -> [isActive |-> TRUE,  interval |-> "OTHER",
                 lastRun |-> T(Date(2024, 1, 9), 0), nextRun |-> T(Jan15 + 1, 0)]
    [] p = 5 -> [isActive |-> FALSE, interval |-> "WEEKLY",
                 lastRun |-> T(Date(2024, 1, 8), HalfPastEight),
                 nextRun |-> T(Jan15, HalfPastEight)]
    [] OTHER -> [isActive |-> TRUE,  interval |-> "WEEKLY",
                 lastRun |-> T(Date(2024, 1, 7), MsPerDay - 1),
                 nextRun |-> T(Jan15 - 1, MsPerDay - 1)]

OwnerOf(s) == ((s - 1) % MaxUsers) + 1

NewsletterRow(s) ==
  LET p == Profile(((s - 1) % 6) + 1)
  IN  [id |-> s, userId |-> OwnerOf(s), isActive |-> p.isActive, interval |-> p.interval,
       lastRun |-> p.lastRun, nextRun |-> p.nextRun]

\* The EmailAccount rows of a user, by kind: no account, an account of
\* another provider, a Gmail account without access token, a Gmail account
\* whose stored token does not decrypt, a usable Gmail account.
AccountKinds == {"none", "other", "notoken", "corrupt", "ok"}

AccountRows(u, kind) ==
  CASE kind = "none"    -> << >>
    [] kind = "other"   -> << [id |-> u, provider |-> "OUTLOOK", accessToken |-> "enc"] >>
    [] kind = "notoken" -> << [id |-> u, provider |-> "GMAIL", accessToken |-> ""] >>
    [] kind = "corrupt" -> << [id |-> u, provider |-> "GMAIL", accessToken |-> "garbled"] >>
    [] OTHER            -> << [id |-> u, provider |-> "GMAIL", accessToken |-> "enc"] >>

\* The instants a job run may start at, and the request bodies it may get.
NowChoices ==
  { T(Jan15, 0), T(Jan15, HalfPastEight), T(Jan15 + 1, 0) }

OptChoices ==
  { [maxEmailsPerNewsletter |-> 10, gmailFetchConcurrency |-> 8],
    [maxEmailsPerNewsletter |-> 0,  gmailFetchConcurrency |-> 0] }

VARIABLES
  calls,          \* the mapWithConcurrency calls with a pending promise: [sub, stage, c]
  mapArg,         \* harness: the arguments of the call under test
  mapRet,         \* harness: what the caller of that call got
  emailAccounts,  \* store: user id -> the user's EmailAccount rows
  newsletters,    \* store: subscription id -> Newsletter row
  histories,      \* store: the NewsletterHistory rows, in creation order
  pc,             \* where createUsersPodcasts is
  now,            \* const now = new Date()
  opts,           \* the NewsletterProcessingOptions of the request
  loaded,         \* const users = await prisma.user.findMany(...)
  uIdx,           \* position of the for (const user of users) loop
  nIdx,           \* position of the for (const newsletter of user.newsletters) loop
  perUserResults, \* perUserResults
  userResult,     \* userResult of the user being processed
  run,            \* locals of the processNewsletter call in progress
  issued,         \* external calls issued so far outside the fan-outs: [op, sub]
  response        \* what the request was answered with

jobVars == << emailAccounts, newsletters, histories, pc, now, opts, loaded, uIdx, nIdx,
              perUserResults, userResult, run, issued, response >>

\* The state of the two smaller developments below: the due window on its
\* own, and the provider calls of one account.
VARIABLES
  winArg,         \* harness: two instants
  winRet,         \* harness: the due windows computed for them
  manager,        \* createCredentialsUpdater: credentials and currentCredentials
  account,        \* store: the EmailAccount row of the manager's account
  provider,       \* the provider calls in progress
  mints,          \* provider: the refreshes performed, [old, new]
  expired,        \* the access tokens whose expiry, less the buffer, has passed
  written,        \* the access tokens some completed store write has stored
  dispatched,     \* the provider calls made so far
  refreshFailed,  \* some refresh was refused by the provider
  credPc,         \* where the user's inner loop is
  credSub,        \* the newsletter being processed
  fnArg,          \* harness: the arguments of a function applied on its own
  fnRet,          \* harness: what the function returned
  runs,           \* two requests in one process: the locals of each job run
  mail            \* one subscription over the weeks: the clock, the mailbox, the run

winVars == << winArg, winRet >>
credVars == << manager, account, provider, mints, expired, written, dispatched,
               refreshFailed, credPc, credSub >>
pureVars == << fnArg, fnRet >>
overlapVars == << runs >>
mailVars == << mail >>
sideVars == << winVars, credVars, pureVars, overlapVars, mailVars >>
vars == << calls, mapArg, mapRet, jobVars, sideVars >>

\* ------------------------------------------- mapWithConcurrency on its own
ItemValues == {"a", "b"}

\* The mapper of the harness: any function of the item and its index.
Mapper(item, index) == << item, index >>
MapperError(index) == Err("mapper", index)

NoRun ==
  [newsletter |-> 0, emails |-> << >>, caught |-> {}, text |-> << >>, podcast |-> << >>,
   historyId |-> 0]
NoUserResult == [userId |-> 0, newsletters |-> << >>]
NoResponse == [status |-> "none"]

JobIdle ==
  /\ pc = "idle"
  /\ now = NullDate
  /\ opts = [maxEmailsPerNewsletter |-> 0, gmailFetchConcurrency |-> 0]
  /\ loaded = << >>
  /\ uIdx = 0
  /\ nIdx = 0
  /\ perUserResults = << >>
  /\ userResult = NoUserResult
  /\ run = NoRun
  /\ issued = {}
  /\ response = NoResponse
  /\ histories = << >>

NoWindow == [start |-> NullDate, end |-> NullDate]
WinIdle ==
  /\ winArg = << NullDate, NullDate >>
  /\ winRet = << NoWindow, NoWindow >>

\* Access tokens are numbers: 0 is the token the store holds when the job
\* starts, 1, 2, ... are the tokens the provider issues when asked to refresh.
\* expiresAt is the expiry of some token, or null.
ExpiryOf(token) == [of |-> token]
NullExpiry == ExpiryOf(-1)
\* encrypt and decrypt of lib/encryption.
Encrypt(plain) == [cipher |-> plain]
Decrypt(stored) == stored.cipher

NoCredentials == [accessToken |-> -1, refreshToken |-> FALSE, expiresAt |-> NullExpiry]
CredIdle ==
  /\ manager = [credentials |-> NoCredentials, currentCredentials |-> NoCredentials]
  /\ account = [accessToken |-> Encrypt(-1), expiresAt |-> NullExpiry]
  /\ provider = {}
  /\ mints = {}
  /\ expired = {}
  /\ written = {}
  /\ dispatched = {}
  /\ refreshFailed = FALSE
  /\ credPc = "idle"
  /\ credSub = 0

NotApplied == [kind |-> "notapplied"]
PureIdle ==
  /\ fnArg = NotApplied
  /\ fnRet = NotApplied

\* No request of the two is in progress.
NoJobRun ==
  [pc |-> "idle", now |-> NullDate, todo |-> << >>, histories |-> {}, scheduled |-> {},
   failed |-> {}, retried |-> {}]
OverlapIdle == runs = << NoJobRun, NoJobRun >>

\* No run of the subscription is in progress, its mailbox is empty.
NoMail ==
  [clock |-> 1, inbox |-> {}, pc |-> "idle", now |-> NullDate, maxResults |-> 0,
   emails |-> {}, fetched |-> << >>]
MailIdle == mail = NoMail

MapInit ==
  /\ \E n \in 0..MaxN, k \in 0..MaxK :
       \E items \in [1..n -> ItemValues] :
         mapArg = [items |-> items, concurrency |-> k]
  /\ calls = << >>
  /\ mapRet = [kind |-> "notcalled"]
  /\ emailAccounts = << >>
  /\ newsletters = << >>
  /\ JobIdle
  /\ WinIdle
  /\ CredIdle
  /\ PureIdle
  /\ OverlapIdle
  /\ MailIdle

MapCall ==
  /\ calls = << >>
  /\ calls' = << [sub |-> 0, stage |-> "map", c |-> NewCall(mapArg.items, mapArg.concurrency)] >>
  /\ mapRet' = CallOutcome(calls'[1].c)
  /\ UNCHANGED << mapArg, jobVars, sideVars >>

\* The caller's await resumes once, with the outcome the call settled with.
Resume(ret, call) == IF ret.kind = "pending" THEN CallOutcome(call) ELSE ret

MapperFulfils ==
  /\ calls # << >>
  /\ \E w \in Awaiting(calls[1].c) :
       LET i == calls[1].c.workers[w].current
       IN  calls' = [calls EXCEPT ![1].c = OpFulfil(@, w, Mapper(@.items[i + 1], i))]
  /\ mapRet' = Resume(mapRet, calls'[1].c)
  /\ UNCHANGED << mapArg, jobVars, sideVars >>

MapperRejects ==
  /\ calls # << >>
  /\ \E w \in Awaiting(calls[1].c) :
       calls' = [calls EXCEPT ![1].c = OpReject(@, w, MapperError(@.workers[w].current))]
  /\ mapRet' = Resume(mapRet, calls'[1].c)
  /\ UNCHANGED << mapArg, jobVars, sideVars >>

MapNext == MapCall \/ MapperFulfils \/ MapperRejects

SpecMap == MapInit /\ [][MapNext]_vars

\* ------------------------------------------------ the job: pure parts
\* Mutation: the window ends 24 hours after now.
WindowEndFromNow(t) == AddMs(t, MsPerDay)

\* const start = startOfUtcDay(now); const end = new Date(start.getTime() + 24h)
WindowStart(t) == StartOfUtcDay(t)
WindowEnd(t) == AddMs(StartOfUtcDay(t), MsPerDay)

\* prisma.user.findMany({ include: { emailAccounts: { where: { provider: GMAIL } },
\*   newsletters: { where: { isActive: true, nextRun: { gte: start, lt: end } } } } })
RECURSIVE InIdOrder(_)
InIdOrder(rows) ==
  IF DOMAIN rows = {}
    THEN << >>
    ELSE LET top == CHOOSE s \in DOMAIN rows : \A r \in DOMAIN rows : r <= s
         IN  Append(InIdOrder([r \in DOMAIN rows \ {top} |-> rows[r]]), rows[top])

\* Mutation: nextRun: { gte: start, lte: end }.
FindManyInclusiveEnd(accounts, rows, start, end) ==
  [u \in 1..Len(accounts) |->
     LET IsGmail(a) == a.provider = "GMAIL"
         IsDue(r) == /\ r.userId = u
                     /\ r.isActive
                     /\ AtOrAfter(r.nextRun, start)
                     /\ ~Before(end, r.nextRun)
     IN  [id |-> u,
          emailAccounts |-> SelectSeq(accounts[u], IsGmail),
          newsletters |-> SelectSeq(InIdOrder(rows), IsDue)]]

\* Mutation: nextRun: { lt: end }, which loads the overdue rows too.
FindManyOverdue(accounts, rows, start, end) ==
  [u \in 1..Len(accounts) |->
     LET IsGmail(a) == a.provider = "GMAIL"
         IsDue(r) == /\ r.userId = u
                     /\ r.isActive
                     /\ Before(r.nextRun, end)
     IN  [id |-> u,
          emailAccounts |-> SelectSeq(accounts[u], IsGmail),
          newsletters |-> SelectSeq(InIdOrder(rows), IsDue)]]

FindMany(accounts, rows, start, end) ==
  [u \in 1..Len(accounts) |->
     LET IsGmail(a) == a.provider = "GMAIL"
         IsDue(r) == /\ r.userId = u
                     /\ r.isActive
                     /\ AtOrAfter(r.nextRun, start)
                     /\ Before(r.nextRun, end)
     IN  [id |-> u,
          emailAccounts |-> SelectSeq(accounts[u], IsGmail),
          newsletters |-> SelectSeq(InIdOrder(rows), IsDue)]]

\* Math.max(1, Math.min(50, options.maxEmailsPerNewsletter))
MaxResults(options) == Max2(1, Min2(50, options.maxEmailsPerNewsletter))
\* Mutation: the bound of the list call used for the fetch fan-out.
FetchConcurrencyCappedAtFifty(options) == Max2(1, Min2(50, options.gmailFetchConcurrency))

\* Math.max(1, Math.min(20, options.gmailFetchConcurrency))
FetchConcurrency(options) == Max2(1, Min2(20, options.gmailFetchConcurrency))
\* mapWithConcurrency(emails, 4, ...)
ExtractConcurrency == 4

\* The mailboxes hold HTML newsletters and plain-text ones: message id of the
\* messages matching newsletter sub has an HTML body unless 3 divides sub + id.
HasHtml(sub, id) == (sub + id) % 3 # 0

\* The message gmailGetMessageText returns for an id; html is absent or not.
\* A string is a sequence of tokens, the empty string << >>; a token is a pair.
Message(sub, id) == [id |-> id, text |-> << << "text", id >> >>, html |-> HasHtml(sub, id)]

\* The ExtractedEmail of a message without HTML, and after a failed
\* extraction: articles: [{ text: email.text }].
PlainTextEmail(email) == [id |-> email.id, articles |-> << [text |-> email.text] >>]
\* The ExtractedEmail built from what the extractor returned.
ServiceEmail(email) ==
  [id |-> email.id,
   articles |-> << [text |-> email.text, fetched_content |-> << << "article", email.id >> >>] >>]

\* The mapper of extractEmailsContent returns at once for a message without
\* HTML: the workers holding such messages go on claiming in the same turn.
RECURSIVE DrainPlain(_)
DrainPlain(call) ==
  LET ready == { w \in Awaiting(call) : ~call.items[call.workers[w].current + 1].html }
  IN  IF ready = {}
        THEN call
        ELSE LET w == CHOOSE v \in ready : \A x \in ready : v <= x
             IN  DrainPlain(OpFulfil(call, w, PlainTextEmail(call.items[call.workers[w].current + 1])))

\* A string literal of the source, as a string of one token.
Lit(s) == << << s, 0 >> >>

\* buildPodcastInput, one article: content is fetched_content || text, title
\* is fetched_title || title; null (here the empty string, as falsy) without
\* content, else the content, under a heading when there is a title.
ArticleBody(article) ==
  LET Get(f) == IF f \in DOMAIN article THEN article[f] ELSE << >>
      content == IF Get("fetched_content") # << >> THEN Get("fetched_content") ELSE Get("text")
      title == IF Get("fetched_title") # << >> THEN Get("fetched_title") ELSE Get("title")
  IN  IF content = << >> THEN << >>
      ELSE IF title # << >> THEN Lit("### ") \o title \o Lit("\n\n") \o content
      ELSE content

\* Mutation: join without filter(Boolean).
RECURSIVE JoinUnfiltered(_, _)
JoinUnfiltered(parts, sep) ==
  IF parts = << >> THEN << >>
  ELSE IF Len(parts) = 1 THEN parts[1]
  ELSE parts[1] \o sep \o JoinUnfiltered(Tail(parts), sep)

\* parts.filter(Boolean).join(sep)
RECURSIVE Join(_, _)
Join(parts, sep) ==
  LET kept == SelectSeq(parts, LAMBDA part : part # << >>)
  IN  IF kept = << >> THEN << >>
      ELSE IF Len(kept) = 1 THEN kept[1]
      ELSE kept[1] \o sep \o Join(Tail(kept), sep)

\* Mutation: without emails the text is a placeholder sentence.
BuildPodcastInputPlaceholder(extractedEmails) ==
  IF extractedEmails = << >>
    THEN Lit("No new messages.")
    ELSE LET Block(email) ==
               LET header == << << "header", email.id >> >>
                   articlesText ==
                     Join([a \in 1..Len(email.articles) |-> ArticleBody(email.articles[a])],
                          Lit("\n\n---\n\n"))
               IN  IF articlesText = << >> THEN header ELSE header \o Lit("\n\n") \o articlesText
         IN  Join([i \in 1..Len(extractedEmails) |-> Block(extractedEmails[i])],
                  Lit("\n\n===\n\n"))

\* buildPodcastInput: per email the header, a blank line and the articles
\* joined by the article separator, trimmed (a header with no article text
\* stands alone); the emails joined by the email separator. The header of
\* an email is one token, which names the email.
BuildPodcastInput(extractedEmails) ==
  LET Block(email) ==
        LET header == << << "header", email.id >> >>
            articlesText ==
              Join([a \in 1..Len(email.articles) |-> ArticleBody(email.articles[a])],
                   Lit("\n\n---\n\n"))
        IN  IF articlesText = << >> THEN header ELSE header \o Lit("\n\n") \o articlesText
  IN  Join([i \in 1..Len(extractedEmails) |-> Block(extractedEmails[i])],
           Lit("\n\n===\n\n"))

\* The PodcastResult the synthesis service answers with: whatever it is, the
\* job only passes it on.
PodcastFor(newsletterId) == << [script |-> newsletterId] >>

\* The array mapWithConcurrency returned, as a sequence.
AsSeq(call) == [i \in 1..Len(call.items) |-> call.results[i - 1]]

\* What processNewsletter still reads of the fetched emails once the
\* extraction fan-out has its copy: their number and the metadata
\* saveNewsletterHistory stores (id, threadId, snippet, internalDate, headers).
Metadata(emails) == [i \in 1..Len(emails) |-> [id |-> emails[i].id]]

\* The NewsletterHistory row saveNewsletterHistory creates.
HistoryRow(newsletterId, emails, podcast) ==
  [newsletterId |-> newsletterId,
   fetchedEmailCount |-> Len(emails),
   podcast |-> podcast,
   emails |-> emails]

\* Mutation: the next run is counted from the planned run, not from now.
RescheduledFromPlanned(row, at, interval) ==
  [row EXCEPT !.lastRun = at, !.nextRun = AddInterval(row.nextRun, interval)]

\* The data updateNewsletterSchedule writes on the Newsletter row.
Rescheduled(row, at, interval) ==
  [row EXCEPT !.lastRun = at, !.nextRun = AddInterval(at, interval)]

\* Mutation: no check of the access token.
GetGmailCredentialsUnchecked(emailAccount) ==
  CASE emailAccount.accessToken = "garbled" -> [kind |-> "throw"]
    [] OTHER                                -> [kind |-> "credentials"]

\* getGmailCredentials: null without an access token; decrypt throws on a
\* token that is not a valid ciphertext.
GetGmailCredentials(emailAccount) ==
  CASE emailAccount.accessToken = ""        -> [kind |-> "null"]
    [] emailAccount.accessToken = "garbled" -> [kind |-> "throw"]
    [] OTHER                                -> [kind |-> "credentials"]

\* The two shapes of NewsletterResult processNewsletter returns.
SuccessResult(newsletterId, emails, historyId, podcast, nextRun) ==
  [newsletterId |-> newsletterId, fetchedEmailCount |-> Len(emails), historyId |-> historyId,
   podcast |-> podcast, nextRun |-> nextRun]
FailureResult(newsletterId, err) == [newsletterId |-> newsletterId, error |-> err]

\* The provider calls a fetch fan-out has made so far.
GetsIssued(entry) ==
  { [op |-> "get", sub |-> entry.sub, id |-> entry.c.items[i + 1]] :
      i \in { j \in DOMAIN entry.c.invoked : entry.c.invoked[j] > 0 } }
\* Mutation: the extractor is called for every message.
ExtractsIssuedForAll(entry) ==
  { [op |-> "extract", sub |-> entry.sub, id |-> entry.c.items[i + 1].id] :
      i \in { j \in DOMAIN entry.c.invoked : entry.c.invoked[j] > 0 } }
\* The extractor calls an extraction fan-out has made so far.
ExtractsIssued(entry) ==
  { [op |-> "extract", sub |-> entry.sub, id |-> entry.c.items[i + 1].id] :
      i \in { j \in DOMAIN entry.c.invoked : entry.c.invoked[j] > 0 /\ entry.c.items[j + 1].html } }

\* ------------------------------------------------------ the job: actions
Init ==
  /\ \E n \in 0..MaxUsers :
       \E kinds \in [1..n -> AccountKinds] :
         /\ emailAccounts = [u \in 1..n |-> AccountRows(u, kinds[u])]
         /\ newsletters = [s \in { r \in 1..MaxSubs : OwnerOf(r) <= n } |-> NewsletterRow(s)]
  /\ calls = << >>
  /\ mapArg = [items |-> << >>, concurrency |-> 0]
  /\ mapRet = [kind |-> "notcalled"]
  /\ JobIdle
  /\ WinIdle
  /\ CredIdle
  /\ PureIdle
  /\ OverlapIdle
  /\ MailIdle

\* The call promise processNewsletter awaits has settled: its continuation
\* runs before any other completion is handled.
Settling == pc \in {"fetch", "extract"} /\ calls[Len(calls)].c.settled # "pending"
\* Some external call may complete: the job is at an await, or has answered.
AtAwait == pc \notin {"idle", "users", "subs"} /\ ~Settling

User == loaded[uIdx]
Newsletter == User.newsletters[nIdx]

\* POST /create-users-podcasts: now, the options, and the discovery query.
JobStart ==
  /\ pc = "idle"
  /\ \E t \in NowChoices, o \in OptChoices : now' = t /\ opts' = o
  /\ pc' = "discover"
  /\ UNCHANGED << calls, mapArg, mapRet, emailAccounts, newsletters, histories, loaded, uIdx,
                  nIdx, perUserResults, userResult, run, issued, response >>
  /\ UNCHANGED sideVars

DiscoverOk ==
  /\ pc = "discover"
  /\ loaded' = FindMany(emailAccounts, newsletters, WindowStart(now), WindowEnd(now))
  /\ uIdx' = 1
  /\ pc' = "users"
  /\ UNCHANGED << calls, mapArg, mapRet, emailAccounts, newsletters, histories, now, opts,
                  nIdx, perUserResults, userResult, run, issued, response >>
  /\ UNCHANGED sideVars

\* The query rejects: catch (error) { next(error) }.
DiscoverFails ==
  /\ pc = "discover"
  /\ response' = [status |-> "error", error |-> Err("findMany", 0)]
  /\ pc' = "responded"
  /\ UNCHANGED << calls, mapArg, mapRet, emailAccounts, newsletters, histories, now, opts,
                  loaded, uIdx, nIdx, perUserResults, userResult, run, issued >>
  /\ UNCHANGED sideVars

\* Mutation: continue without perUserResults.push(userResult).
SkipUserUnreported(result) ==
  /\ uIdx' = uIdx + 1
  /\ UNCHANGED << perUserResults, pc, nIdx, userResult, response >>

\* One turn of for (const user of users), up to the inner loop.
SkipUser(result) ==
  /\ perUserResults' = Append(perUserResults, result)
  /\ uIdx' = uIdx + 1
  /\ UNCHANGED << pc, nIdx, userResult, response >>

UserStep ==
  /\ pc = "users"
  /\ uIdx <= Len(loaded)
  /\ \/ /\ User.emailAccounts = << >>
        /\ SkipUser([userId |-> User.id, newsletters |-> << >>,
                     error |-> "No Gmail email account found for user"])
     \/ /\ User.emailAccounts # << >>
        /\ GetGmailCredentials(User.emailAccounts[1]).kind = "null"
        /\ SkipUser([userId |-> User.id, emailAccountId |-> User.emailAccounts[1].id,
                     newsletters |-> << >>,
                     error |-> "No Gmail email account with accessToken found for user"])
     \/ /\ User.emailAccounts # << >>
        /\ GetGmailCredentials(User.emailAccounts[1]).kind = "throw"
        /\ response' = [status |-> "error", error |-> Err("decrypt", User.id)]
        /\ pc' = "responded"
        /\ UNCHANGED << perUserResults, uIdx, nIdx, userResult >>
     \/ /\ User.emailAccounts # << >>
        /\ GetGmailCredentials(User.emailAccounts[1]).kind = "credentials"
        /\ userResult' = [userId |-> User.id, emailAccountId |-> User.emailAccounts[1].id,
                          newsletters |-> << >>]
        /\ nIdx' = 1
        /\ pc' = "subs"
        /\ UNCHANGED << perUserResults, uIdx, response >>
  /\ UNCHANGED << calls, mapArg, mapRet, emailAccounts, newsletters, histories, now, opts,
                  loaded, run, issued >>
  /\ UNCHANGED sideVars

\* The loop over the users is over: res.json({ status, ranAt, userCount, result }).
Respond ==
  /\ pc = "users"
  /\ uIdx > Len(loaded)
  /\ response' = [status |-> "success", ranAt |-> now, userCount |-> Len(loaded),
                  result |-> perUserResults]
  /\ pc' = "responded"
  /\ UNCHANGED << calls, mapArg, mapRet, emailAccounts, newsletters, histories, now, opts,
                  loaded, uIdx, nIdx, perUserResults, userResult, run, issued >>
  /\ UNCHANGED sideVars

\* processNewsletter is called for the next newsletter of the user:
\* fetchNewsletterEmails issues the list call.
NewsletterStart ==
  /\ pc = "subs"
  /\ nIdx <= Len(User.newsletters)
  /\ run' = [NoRun EXCEPT !.newsletter = Newsletter.id]
  /\ issued' = issued \cup {[op |-> "list", sub |-> Newsletter.id, id |-> 0]}
  /\ pc' = "list"
  /\ UNCHANGED << calls, mapArg, mapRet, emailAccounts, newsletters, histories, now, opts,
                  loaded, uIdx, nIdx, perUserResults, userResult, response >>
  /\ UNCHANGED sideVars

\* The user's newsletters are done: perUserResults.push(userResult).
UserDone ==
  /\ pc = "subs"
  /\ nIdx > Len(User.newsletters)
  /\ perUserResults' = Append(perUserResults, userResult)
  /\ userResult' = NoUserResult
  /\ uIdx' = uIdx + 1
  /\ nIdx' = 0
  /\ pc' = "users"
  /\ UNCHANGED << calls, mapArg, mapRet, emailAccounts, newsletters, histories, now, opts,
                  loaded, run, issued, response >>
  /\ UNCHANGED sideVars

\* Mutation: userResult.newsletters.unshift(result).
ReturnsInFront(result) ==
  /\ userResult' = [userResult EXCEPT !.newsletters = << result >> \o @]
  /\ nIdx' = nIdx + 1
  /\ run' = NoRun
  /\ pc' = "subs"

\* processNewsletter returns result: userResult.newsletters.push(result).
Returns(result) ==
  /\ userResult' = [userResult EXCEPT !.newsletters = Append(@, result)]
  /\ nIdx' = nIdx + 1
  /\ run' = NoRun
  /\ pc' = "subs"

\* Mutation: a failed newsletter ends the user's loop (break).
ThrowsAndBreaks(err) ==
  /\ userResult' = [userResult EXCEPT !.newsletters = Append(@, FailureResult(Newsletter.id, err))]
  /\ nIdx' = Len(User.newsletters) + 1
  /\ run' = NoRun
  /\ pc' = "subs"

\* catch (e) { return { newsletterId, error } }
Throws(err) == Returns(FailureResult(Newsletter.id, err))

\* The provider's list call answers with up to maxResults ids:
\* mapWithConcurrency starts the fetches.
ListOk ==
  /\ pc = "list"
  /\ \E n \in 0..Min2(MaxMsgs, MaxResults(opts)) :
       LET entry == [sub |-> Newsletter.id, stage |-> "fetch",
                     c |-> NewCall([j \in 1..n |-> j], FetchConcurrency(opts))]
       IN  /\ calls' = Append(calls, entry)
           /\ issued' = issued \cup GetsIssued(entry)
  /\ pc' = "fetch"
  /\ UNCHANGED << mapArg, mapRet, emailAccounts, newsletters, histories, now, opts, loaded,
                  uIdx, nIdx, perUserResults, userResult, run, response >>
  /\ UNCHANGED sideVars

ListFails ==
  /\ pc = "list"
  /\ Throws(Err("list", 0))
  /\ UNCHANGED << calls, mapArg, mapRet, emailAccounts, newsletters, histories, now, opts,
                  loaded, uIdx, perUserResults, issued, response >>
  /\ UNCHANGED sideVars

\* A call whose promise nobody awaits any more and whose workers are all
\* done leaves nothing behind.
Orphan(i) == ~(pc \in {"fetch", "extract"} /\ i = Len(calls))
Without(cs, i) == [k \in 1..(Len(cs) - 1) |-> IF k < i THEN cs[k] ELSE cs[k + 1]]
Settle(cs, i, entry) ==
  IF Orphan(i) /\ Awaiting(entry.c) = {} THEN Without(cs, i) ELSE [cs EXCEPT ![i] = entry]

\* A message fetch of some fan-out, awaited or left behind, answers.
FetchFulfils ==
  /\ AtAwait
  /\ \E i \in 1..Len(calls) :
       /\ calls[i].stage = "fetch"
       /\ \E w \in Awaiting(calls[i].c) :
            LET c == calls[i].c
                id == c.items[c.workers[w].current + 1]
                entry == [calls[i] EXCEPT !.c = OpFulfil(c, w, Message(calls[i].sub, id))]
            IN  /\ calls' = Settle(calls, i, entry)
                /\ issued' = issued \cup GetsIssued(entry)
  /\ UNCHANGED << mapArg, mapRet, emailAccounts, newsletters, histories, pc, now, opts, loaded,
                  uIdx, nIdx, perUserResults, userResult, run, response >>
  /\ UNCHANGED sideVars

FetchRejects ==
  /\ AtAwait
  /\ \E i \in 1..Len(calls) :
       /\ calls[i].stage = "fetch"
       /\ \E w \in Awaiting(calls[i].c) :
            LET c == calls[i].c
                id == c.items[c.workers[w].current + 1]
                entry == [calls[i] EXCEPT !.c = OpReject(c, w, Err("get", id))]
            IN  calls' = Settle(calls, i, entry)
  /\ UNCHANGED << mapArg, mapRet, emailAccounts, newsletters, histories, pc, now, opts, loaded,
                  uIdx, nIdx, perUserResults, userResult, run, issued, response >>
  /\ UNCHANGED sideVars

\* await mapWithConcurrency(...) of fetchNewsletterEmails resumes: with the
\* emails, and extractEmailsContent starts its fan-out, or with the error.
FetchSettled ==
  /\ pc = "fetch"
  /\ Settling
  /\ LET last == calls[Len(calls)]
         rest == SubSeq(calls, 1, Len(calls) - 1)
     IN  \/ /\ last.c.settled = "fulfilled"
            /\ LET emails == AsSeq(last.c)
                   entry == [sub |-> last.sub, stage |-> "extract",
                             c |-> DrainPlain(NewCall(emails, ExtractConcurrency))]
               IN  /\ calls' = Append(rest, entry)
                   /\ issued' = issued \cup ExtractsIssued(entry)
                   /\ run' = [run EXCEPT !.emails = Metadata(emails)]
            /\ pc' = "extract"
            /\ UNCHANGED << nIdx, userResult >>
         \/ /\ last.c.settled = "rejected"
            /\ calls' = IF Awaiting(last.c) = {} THEN rest ELSE calls
            /\ Throws(last.c.error)
            /\ UNCHANGED issued
  /\ UNCHANGED << mapArg, mapRet, emailAccounts, newsletters, histories, now, opts, loaded,
                  uIdx, perUserResults, response >>
  /\ UNCHANGED sideVars

\* Mutation: no try / catch around the extractor call.
ExtractSettlesUncaught ==
  /\ AtAwait
  /\ pc = "extract"
  /\ \E w \in Awaiting(calls[Len(calls)].c) :
       LET c == calls[Len(calls)].c
           email == c.items[c.workers[w].current + 1]
       IN  \E ok \in BOOLEAN :
             LET after == IF ok THEN OpFulfil(c, w, ServiceEmail(email))
                                ELSE OpReject(c, w, Err("extract", email.id))
                 entry == [calls[Len(calls)] EXCEPT !.c = DrainPlain(after)]
             IN  /\ calls' = [calls EXCEPT ![Len(calls)] = entry]
                 /\ issued' = issued \cup ExtractsIssued(entry)
                 /\ run' = run
  /\ UNCHANGED << mapArg, mapRet, emailAccounts, newsletters, histories, pc, now, opts, loaded,
                  uIdx, nIdx, perUserResults, userResult, response >>
  /\ UNCHANGED sideVars

\* The extractor answers for a message with HTML, or fails or times out: the
\* mapper catches that, logs it (run.caught) and returns the plain-text email.
ExtractSettles ==
  /\ AtAwait
  /\ pc = "extract"
  /\ \E w \in Awaiting(calls[Len(calls)].c) :
       LET c == calls[Len(calls)].c
           email == c.items[c.workers[w].current + 1]
       IN  \E ok \in BOOLEAN :
             LET value == IF ok THEN ServiceEmail(email) ELSE PlainTextEmail(email)
                 entry == [calls[Len(calls)] EXCEPT !.c = DrainPlain(OpFulfil(c, w, value))]
             IN  /\ calls' = [calls EXCEPT ![Len(calls)] = entry]
                 /\ issued' = issued \cup ExtractsIssued(entry)
                 /\ run' = IF ok THEN run ELSE [run EXCEPT !.caught = @ \cup {email.id}]
  /\ UNCHANGED << mapArg, mapRet, emailAccounts, newsletters, histories, pc, now, opts, loaded,
                  uIdx, nIdx, perUserResults, userResult, response >>
  /\ UNCHANGED sideVars

\* extractEmailsContent returns: buildPodcastInput, then the synthesis call.
ExtractSettled ==
  /\ pc = "extract"
  /\ Settling
  /\ LET last == calls[Len(calls)]
     IN  /\ run' = [run EXCEPT !.text = BuildPodcastInput(AsSeq(last.c))]
         /\ calls' = SubSeq(calls, 1, Len(calls) - 1)
  /\ issued' = issued \cup {[op |-> "synth", sub |-> run.newsletter, id |-> 0]}
  /\ pc' = "synth"
  /\ UNCHANGED << mapArg, mapRet, emailAccounts, newsletters, histories, now, opts, loaded,
                  uIdx, nIdx, perUserResults, userResult, response >>
  /\ UNCHANGED sideVars

\* Mutation: the history row and the schedule are written side by side.
SynthOkSavesTogether ==
  /\ pc = "synth"
  /\ run' = [run EXCEPT !.podcast = PodcastFor(run.newsletter), !.text = << >>,
                        !.caught = {}]
  /\ issued' = issued \cup {[op |-> "history", sub |-> run.newsletter, id |-> 0],
                             [op |-> "schedule", sub |-> run.newsletter, id |-> 0]}
  /\ pc' = "history"
  /\ UNCHANGED << calls, mapArg, mapRet, emailAccounts, newsletters, histories, now, opts,
                  loaded, uIdx, nIdx, perUserResults, userResult, response >>
  /\ UNCHANGED sideVars

\* createPodcastFromText answers: saveNewsletterHistory issues its create.
SynthOk ==
  /\ pc = "synth"
  /\ run' = [run EXCEPT !.podcast = PodcastFor(run.newsletter), !.text = << >>,
                        !.caught = {}]
  /\ issued' = issued \cup {[op |-> "history", sub |-> run.newsletter, id |-> 0]}
  /\ pc' = "history"
  /\ UNCHANGED << calls, mapArg, mapRet, emailAccounts, newsletters, histories, now, opts,
                  loaded, uIdx, nIdx, perUserResults, userResult, response >>
  /\ UNCHANGED sideVars

SynthFails ==
  /\ pc = "synth"
  /\ Throws(Err("synth", 0))
  /\ UNCHANGED << calls, mapArg, mapRet, emailAccounts, newsletters, histories, now, opts,
                  loaded, uIdx, perUserResults, issued, response >>
  /\ UNCHANGED sideVars

\* The history row is created: updateNewsletterSchedule issues its update.
HistoryOk ==
  /\ pc = "history"
  /\ histories' = Append(histories, HistoryRow(run.newsletter, run.emails, run.podcast))
  /\ run' = [run EXCEPT !.historyId = Len(histories) + 1]
  /\ issued' = issued \cup {[op |-> "schedule", sub |-> run.newsletter, id |-> 0]}
  /\ pc' = "schedule"
  /\ UNCHANGED << calls, mapArg, mapRet, emailAccounts, newsletters, now, opts, loaded, uIdx,
                  nIdx, perUserResults, userResult, response >>
  /\ UNCHANGED sideVars

\* Mutation: the schedule is advanced in a finally block, failure or not.
HistoryFailsRescheduling ==
  /\ pc = "history"
  /\ newsletters' = [newsletters EXCEPT
                       ![run.newsletter] = Rescheduled(@, now, Newsletter.interval)]
  /\ Throws(Err("history", 0))
  /\ UNCHANGED << calls, mapArg, mapRet, emailAccounts, histories, now, opts,
                  loaded, uIdx, perUserResults, issued, response >>
  /\ UNCHANGED sideVars

HistoryFails ==
  /\ pc = "history"
  /\ Throws(Err("history", 0))
  /\ UNCHANGED << calls, mapArg, mapRet, emailAccounts, newsletters, histories, now, opts,
                  loaded, uIdx, perUserResults, issued, response >>
  /\ UNCHANGED sideVars

\* The Newsletter row is updated: processNewsletter returns the success.
ScheduleOk ==
  /\ pc = "schedule"
  /\ newsletters' = [newsletters EXCEPT
                       ![run.newsletter] = Rescheduled(@, now, Newsletter.interval)]
  /\ Returns(SuccessResult(Newsletter.id, run.emails, run.historyId, run.podcast,
                           AddInterval(now, Newsletter.interval)))
  /\ UNCHANGED << calls, mapArg, mapRet, emailAccounts, histories, now, opts, loaded, uIdx,
                  perUserResults, issued, response >>
  /\ UNCHANGED sideVars

ScheduleFails ==
  /\ pc = "schedule"
  /\ Throws(Err("schedule", 0))
  /\ UNCHANGED << calls, mapArg, mapRet, emailAccounts, newsletters, histories, now, opts,
                  loaded, uIdx, perUserResults, issued, response >>
  /\ UNCHANGED sideVars

Next ==
  \/ JobStart \/ DiscoverOk \/ DiscoverFails
  \/ UserStep \/ Respond \/ NewsletterStart \/ UserDone
  \/ ListOk \/ ListFails
  \/ FetchFulfils \/ FetchRejects \/ FetchSettled
  \/ ExtractSettles \/ ExtractSettled
  \/ SynthOk \/ SynthFails \/ HistoryOk \/ HistoryFails \/ ScheduleOk \/ ScheduleFails

Spec == Init /\ [][Next]_vars

\* ------------------------------------- the provider calls of one account
\* One user with a usable account and MaxCredSubs due newsletters: the
\* manager, the list call and the fetch fan-out of each newsletter, the
\* refreshes and the store writes they cause.  The stages after the fetch
\* make no provider call and are one step here.
MaxCredSubs == 2
\* The request asks for at most two emails per newsletter, fetched one at a
\* time or two at a time.
CredOptChoices ==
  { [maxEmailsPerNewsletter |-> 2, gmailFetchConcurrency |-> 1],
    [maxEmailsPerNewsletter |-> 2, gmailFetchConcurrency |-> 2] }

\* const isExpired = credentials.expiresAt && expiresAt - bufferMs < now
IsExpired(credentials) ==
  /\ credentials.expiresAt # NullExpiry
  /\ credentials.expiresAt.of \in expired

\* Mutation: the calls are given the credentials the manager was created with.
GetCredentialsAtStart == manager.credentials

\* getCredentials: () => currentCredentials
GetCredentials == manager.currentCredentials

NoRefreshed == [accessToken |-> -1, expiresAt |-> NullExpiry]

\* gmailListMessageIds / gmailGetMessageText called with getCredentials():
\* getGmailClient asks the provider for a new access token first when the
\* token is expired and there is a refresh token.
ProviderCall(sub, kind, id) ==
  LET credentials == GetCredentials
  IN  [ sub |-> sub, kind |-> kind, id |-> id,
        credentials |-> credentials,
        phase |-> IF IsExpired(credentials) /\ credentials.refreshToken THEN "refresh" ELSE "api",
        refreshed |-> NoRefreshed ]

\* What is kept of a call made: the token it was given, the manager's token
\* at that moment, whether a refresh had been applied to the manager, whether
\* the token given was in the store (wr: the tokens written), and whether a
\* refresh had failed before.
Logged(op, wr) ==
  [ sub |-> op.sub, kind |-> op.kind, id |-> op.id,
    token |-> op.credentials.accessToken,
    current |-> manager.currentCredentials.accessToken,
    applied |-> manager.currentCredentials.accessToken # manager.credentials.accessToken,
    durable |-> op.credentials.accessToken \in wr \cup {manager.credentials.accessToken},
    afterFail |-> refreshFailed ]

CredInit ==
  /\ \E r \in BOOLEAN, e \in {ExpiryOf(0), NullExpiry} :
       LET credentials == [accessToken |-> 0, refreshToken |-> r, expiresAt |-> e]
       IN  /\ manager = [credentials |-> credentials, currentCredentials |-> credentials]
           /\ account = [accessToken |-> Encrypt(0), expiresAt |-> e]
           /\ expired \in IF e = NullExpiry THEN {{}} ELSE {{}, {0}}
  /\ provider = {}
  /\ mints = {}
  /\ written = {}
  /\ dispatched = {}
  /\ refreshFailed = FALSE
  /\ credPc = "subs"
  /\ credSub = 1
  /\ calls = << >>
  /\ mapArg = [items |-> << >>, concurrency |-> 0]
  /\ mapRet = [kind |-> "notcalled"]
  /\ emailAccounts = << >>
  /\ newsletters = << >>
  /\ histories = << >>
  /\ pc = "subs"
  /\ now = NullDate
  /\ opts \in CredOptChoices
  /\ loaded = << >>
  /\ uIdx = 0
  /\ nIdx = 0
  /\ perUserResults = << >>
  /\ userResult = NoUserResult
  /\ run = NoRun
  /\ issued = {}
  /\ response = NoResponse
  /\ WinIdle
  /\ PureIdle
  /\ OverlapIdle
  /\ MailIdle

\* The fan-out of the newsletter a call belongs to, and the worker awaiting it.
CallOf(op) == CHOOSE i \in 1..Len(calls) : calls[i].sub = op.sub
WorkerOf(c, op) == CHOOSE w \in Awaiting(c) : c.workers[w].current = op.id - 1

CredSettling ==
  /\ credPc = "fetch"
  /\ \E i \in 1..Len(calls) : calls[i].sub = credSub /\ calls[i].c.settled # "pending"
CredAtAwait == credPc \in {"list", "fetch", "rest", "done"} /\ ~CredSettling

CredSettle(cs, i, entry) ==
  IF (credPc # "fetch" \/ entry.sub # credSub) /\ Awaiting(entry.c) = {}
    THEN Without(cs, i)
    ELSE [cs EXCEPT ![i] = entry]

\* The promise of a provider call, updateIfRefreshed included, is fulfilled.
\* For the list call fetchNewsletterEmails starts the fan-out; for a message
\* the worker stores it and claims the next index.
Resolves(op, wr) ==
  IF op.kind = "list"
    THEN \E n \in 0..MaxResults(opts) :
           LET call == NewCall([i \in 1..n |-> i], FetchConcurrency(opts))
               gets == { ProviderCall(op.sub, "get", k + 1) : k \in InFlight(call) }
           IN  /\ calls' = Append(calls, [sub |-> op.sub, stage |-> "fetch", c |-> call])
               /\ provider' = (provider \ {op}) \cup gets
               /\ dispatched' = dispatched \cup { Logged(g, wr) : g \in gets }
               /\ credPc' = "fetch"
               /\ UNCHANGED credSub
    ELSE LET i == CallOf(op)
             c == calls[i].c
             after == OpFulfil(c, WorkerOf(c, op), Message(op.sub, op.id))
             gets == { ProviderCall(op.sub, "get", k + 1) : k \in InFlight(after) \ InFlight(c) }
         IN  /\ calls' = CredSettle(calls, i, [calls[i] EXCEPT !.c = after])
             /\ provider' = (provider \ {op}) \cup gets
             /\ dispatched' = dispatched \cup { Logged(g, wr) : g \in gets }
             /\ UNCHANGED << credPc, credSub >>

\* The promise of a provider call is rejected: processNewsletter's catch for
\* the list call, the worker's rejection for a message.
Rejects(op, err) ==
  IF op.kind = "list"
    THEN /\ provider' = provider \ {op}
         /\ credPc' = "subs"
         /\ credSub' = credSub + 1
         /\ UNCHANGED << calls, dispatched >>
    ELSE LET i == CallOf(op)
             c == calls[i].c
         IN  /\ calls' = CredSettle(calls, i, [calls[i] EXCEPT !.c = OpReject(c, WorkerOf(c, op), err)])
             /\ provider' = provider \ {op}
             /\ UNCHANGED << dispatched, credPc, credSub >>

\* for (const newsletter of user.newsletters): processNewsletter calls
\* gmailListMessageIds with getCredentials().
SubStart ==
  /\ credPc = "subs"
  /\ credSub <= MaxCredSubs
  /\ LET op == ProviderCall(credSub, "list", 0)
     IN  /\ provider' = provider \cup {op}
         /\ dispatched' = dispatched \cup {Logged(op, written)}
  /\ credPc' = "list"
  /\ UNCHANGED << manager, account, mints, expired, written, refreshFailed, credSub >>
  /\ UNCHANGED << calls, mapArg, mapRet, jobVars, winVars, overlapVars, mailVars, pureVars >>

UserEnds ==
  /\ credPc = "subs"
  /\ credSub > MaxCredSubs
  /\ credPc' = "done"
  /\ UNCHANGED << manager, account, provider, mints, expired, written, dispatched,
                  refreshFailed, credSub >>
  /\ UNCHANGED << calls, mapArg, mapRet, jobVars, winVars, overlapVars, mailVars, pureVars >>

\* The clock passes the expiry, less the buffer, of the token the store held.
ExpiryPasses ==
  /\ credPc # "done" \/ provider # {}
  /\ manager.credentials.expiresAt # NullExpiry
  /\ 0 \notin expired
  /\ expired' = expired \cup {0}
  /\ UNCHANGED << manager, account, provider, mints, written, dispatched, refreshFailed,
                  credPc, credSub >>
  /\ UNCHANGED << calls, mapArg, mapRet, jobVars, winVars, overlapVars, mailVars, pureVars >>

\* auth.refreshAccessToken() resolves: the provider has issued a new token.
RefreshOk ==
  /\ CredAtAwait
  /\ \E op \in provider :
       /\ op.phase = "refresh"
       /\ LET new == Cardinality(mints) + 1
              refreshed == [accessToken |-> new, expiresAt |-> ExpiryOf(new)]
          IN  /\ mints' = mints \cup {[old |-> op.credentials.accessToken, new |-> new,
                                       sub |-> op.sub, kind |-> op.kind, id |-> op.id]}
              /\ provider' = (provider \ {op})
                               \cup {[op EXCEPT !.phase = "api", !.refreshed = refreshed]}
  /\ UNCHANGED << manager, account, expired, written, dispatched, refreshFailed, credPc, credSub >>
  /\ UNCHANGED << calls, mapArg, mapRet, jobVars, winVars, overlapVars, mailVars, pureVars >>

\* auth.refreshAccessToken() rejects: getGmailClient throws.
RefreshFails ==
  /\ CredAtAwait
  /\ \E op \in provider :
       /\ op.phase = "refresh"
       /\ Rejects(op, Err("refresh", op.id))
  /\ refreshFailed' = TRUE
  /\ UNCHANGED << manager, account, mints, expired, written >>
  /\ UNCHANGED << mapArg, mapRet, jobVars, winVars, overlapVars, mailVars, pureVars >>

\* The API request of a call that did not refresh resolves;
\* updateIfRefreshed(undefined) does nothing.
ApiOk ==
  /\ CredAtAwait
  /\ \E op \in provider :
       /\ op.phase = "api"
       /\ op.refreshed = NoRefreshed
       /\ Resolves(op, written)
  /\ UNCHANGED << manager, account, mints, expired, written, refreshFailed >>
  /\ UNCHANGED << mapArg, mapRet, jobVars, winVars, overlapVars, mailVars, pureVars >>

\* The API request of a call that refreshed resolves: updateIfRefreshed sets
\* currentCredentials and awaits prisma.emailAccount.update.
ApiOkRefreshed ==
  /\ CredAtAwait
  /\ \E op \in provider :
       /\ op.phase = "api"
       /\ op.refreshed # NoRefreshed
       /\ manager' = [manager EXCEPT !.currentCredentials.accessToken = op.refreshed.accessToken,
                                     !.currentCredentials.expiresAt = op.refreshed.expiresAt]
       /\ provider' = (provider \ {op}) \cup {[op EXCEPT !.phase = "write"]}
  /\ UNCHANGED << account, mints, expired, written, dispatched, refreshFailed, credPc, credSub >>
  /\ UNCHANGED << calls, mapArg, mapRet, jobVars, winVars, overlapVars, mailVars, pureVars >>

\* The API request rejects; a token the call had obtained is dropped with it.
ApiFails ==
  /\ CredAtAwait
  /\ \E op \in provider :
       /\ op.phase = "api"
       /\ Rejects(op, Err(op.kind, op.id))
  /\ UNCHANGED << manager, account, mints, expired, written, refreshFailed >>
  /\ UNCHANGED << mapArg, mapRet, jobVars, winVars, overlapVars, mailVars, pureVars >>

\* prisma.emailAccount.update resolves: the row holds the encrypted token
\* and the expiry of this call's refresh.
WriteOk ==
  /\ CredAtAwait
  /\ \E op \in provider :
       /\ op.phase = "write"
       /\ account' = [accessToken |-> Encrypt(op.refreshed.accessToken),
                      expiresAt |-> op.refreshed.expiresAt]
       /\ written' = written \cup {op.refreshed.accessToken}
       /\ Resolves(op, written')
  /\ UNCHANGED << manager, mints, expired, refreshFailed >>
  /\ UNCHANGED << mapArg, mapRet, jobVars, winVars, overlapVars, mailVars, pureVars >>

WriteFails ==
  /\ CredAtAwait
  /\ \E op \in provider :
       /\ op.phase = "write"
       /\ Rejects(op, Err("write", op.id))
  /\ UNCHANGED << manager, account, mints, expired, written, refreshFailed >>
  /\ UNCHANGED << mapArg, mapRet, jobVars, winVars, overlapVars, mailVars, pureVars >>

\* await mapWithConcurrency(...) of fetchNewsletterEmails resumes: with the
\* emails, and the stages without provider calls follow, or with the error.
CredFetchSettled ==
  /\ CredSettling
  /\ LET i == CHOOSE k \in 1..Len(calls) : calls[k].sub = credSub
     IN  \/ /\ calls[i].c.settled = "fulfilled"
            /\ calls' = Without(calls, i)
            /\ credPc' = "rest"
            /\ UNCHANGED credSub
         \/ /\ calls[i].c.settled = "rejected"
            /\ calls' = IF Awaiting(calls[i].c) = {} THEN Without(calls, i) ELSE calls
            /\ credPc' = "subs"
            /\ credSub' = credSub + 1
  /\ UNCHANGED << manager, account, provider, mints, expired, written, dispatched, refreshFailed >>
  /\ UNCHANGED << mapArg, mapRet, jobVars, winVars, overlapVars, mailVars, pureVars >>

\* Extraction, synthesis, history and schedule end, one way or the other.
PipelineRest ==
  /\ credPc = "rest"
  /\ credPc' = "subs"
  /\ credSub' = credSub + 1
  /\ UNCHANGED << manager, account, provider, mints, expired, written, dispatched, refreshFailed >>
  /\ UNCHANGED << calls, mapArg, mapRet, jobVars, winVars, overlapVars, mailVars, pureVars >>

CredNext ==
  \/ SubStart \/ UserEnds \/ ExpiryPasses
  \/ RefreshOk \/ RefreshFails
  \/ ApiOk \/ ApiOkRefreshed \/ ApiFails
  \/ WriteOk \/ WriteFails
  \/ CredFetchSettled \/ PipelineRest

SpecCred == CredInit /\ [][CredNext]_vars

\* ------------------------------------------------ the due window on its own
\* Days around the ends of months and years, and times of day around midnight.
WinDays ==
  { 0, Date(2023, 12, 31), Date(2024, 1, 1), Date(2024, 2, 28), Date(2024, 2, 29),
    Date(2024, 3, 1), Date(2025, 2, 28), Date(2100, 3, 1) }
WinTimes == { 0, 1, HalfPastEight, MsPerDay - 1 }
Instants == { T(d, ms) : d \in WinDays, ms \in WinTimes }

WindowFor(t) == [start |-> WindowStart(t), end |-> WindowEnd(t)]

WinInit ==
  /\ winArg \in Instants \X Instants
  /\ winRet = << NoWindow, NoWindow >>
  /\ calls = << >>
  /\ mapArg = [items |-> << >>, concurrency |-> 0]
  /\ mapRet = [kind |-> "notcalled"]
  /\ emailAccounts = << >>
  /\ newsletters = << >>
  /\ JobIdle
  /\ CredIdle
  /\ PureIdle
  /\ OverlapIdle
  /\ MailIdle

ComputeWindows ==
  /\ winRet = << NoWindow, NoWindow >>
  /\ winRet' = << WindowFor(winArg[1]), WindowFor(winArg[2]) >>
  /\ UNCHANGED << winArg, calls, mapArg, mapRet, jobVars, credVars, pureVars, overlapVars, mailVars >>

WinNext == ComputeWindows

SpecWindow == WinInit /\ [][WinNext]_vars

\* ------------------------------------------------- addInterval on its own
\* Days at the ends of months of every length, added to those of the window.
CalInstants ==
  { T(d, ms) : d \in WinDays \cup
                     { Date(2024, 1, 29), Date(2024, 1, 30), Date(2024, 1, 31),
                       Date(2025, 1, 31), Date(2024, 3, 31), Date(2024, 8, 31),
                       Date(2024, 12, 25), Date(2024, 12, 31) },
               ms \in WinTimes }
Intervals == { "WEEKLY", "BIWEEKLY", "MONTHLY", "OTHER" }

IntervalArgs == [kind : {"addInterval"}, from : CalInstants, interval : Intervals]

\* One call of addInterval. The Date objects are numbered: object 1 is the
\* argument, object 2 is next, made as a copy of it and then set.
ApplyAddInterval ==
  /\ fnRet = NotApplied
  /\ fnArg.kind = "addInterval"
  /\ LET copied == << fnArg.from, fnArg.from >>
         after  == [copied EXCEPT ![2] = AddInterval(copied[2], fnArg.interval)]
     IN  fnRet' = [kind |-> "addInterval", from |-> after[1], next |-> after[2]]
  /\ UNCHANGED << fnArg, calls, mapArg, mapRet, jobVars, winVars, overlapVars, mailVars, credVars >>

\* --------------------------------------------- the list query on its own
\* Mutation: a subscription never run is fetched from the epoch.
AfterUnixSecondsFromEpoch(lastRun, startDate) ==
  LET t == IF lastRun = NullDate THEN T(0, 0) ELSE lastRun
  IN  t.day * (MsPerDay \div 1000) + (t.ms \div 1000)

\* Math.floor((newsletter.lastRun ?? startDate).getTime() / 1000)
AfterUnixSeconds(lastRun, startDate) ==
  LET t == IF lastRun = NullDate THEN startDate ELSE lastRun
  IN  t.day * (MsPerDay \div 1000) + (t.ms \div 1000)

\* buildGmailQuery: the parts of the query, the senders' part when there are
\* senders and the after: part when afterUnixSeconds is above 0.
BuildGmailQuery(selectedEmails, afterUnixSeconds) ==
  (IF selectedEmails # << >> THEN << [from |-> selectedEmails] >> ELSE << >>)
    \o (IF afterUnixSeconds > 0 THEN << [after |-> afterUnixSeconds] >> ELSE << >>)

\* Instants on and off the whole second, the epoch among them.
AfterInstants ==
  { T(d, ms) : d \in { 0, Date(2023, 12, 31), Date(2024, 1, 1), Jan15 },
               ms \in { 0, 1, 999, 1000, HalfPastEight + 500, MsPerDay - 1 } }
AfterArgs ==
  [kind : {"fetchNewsletterEmails"}, now : AfterInstants,
   lastRun : AfterInstants \cup {NullDate}, selectedEmails : {<< >>, << "a@x" >>}]

\* The query of one subscription's list call in a job run at now:
\* createUsersPodcasts passes the window's start down as startDate.
ApplyBuildQuery ==
  /\ fnRet = NotApplied
  /\ fnArg.kind = "fetchNewsletterEmails"
  /\ fnRet' = [kind |-> "fetchNewsletterEmails",
               q |-> BuildGmailQuery(fnArg.selectedEmails,
                                     AfterUnixSeconds(fnArg.lastRun, WindowStart(fnArg.now)))]
  /\ UNCHANGED << fnArg, calls, mapArg, mapRet, jobVars, winVars, overlapVars, mailVars, credVars >>

\* ------------------------------------------- buildPodcastInput on its own
MaxArticles == 2

\* Which of its fields an article has: none, the email's own, and what the
\* extractor fetched, with and without a fetched title.
ArticleShapes ==
  { {}, {"text"}, {"text", "title"}, {"fetched_content"},
    {"text", "title", "fetched_content"}, {"text", "title", "fetched_title"},
    {"text", "title", "fetched_content", "fetched_title"} }

\* Article a of that shape: each field it has is a string of one token of its own.
ArticleOf(a, shape) ==
  [f \in {"text", "title", "fetched_content", "fetched_title"} |->
     IF f \in shape THEN << << f, a >> >> ELSE << >>]

\* The first email has up to MaxArticles articles of any shapes; a second
\* email is absent, has no article or has one article of plain text.
ComposeArgs ==
  [kind : {"buildPodcastInput"},
   shapes : UNION { [1..n -> ArticleShapes] : n \in 0..MaxArticles },
   second : {"none", "empty", "text"}]

ApplyBuildPodcastInput ==
  /\ fnRet = NotApplied
  /\ fnArg.kind = "buildPodcastInput"
  /\ LET first == [id |-> 1,
                   articles |-> [a \in DOMAIN fnArg.shapes |-> ArticleOf(a, fnArg.shapes[a])]]
         extractedEmails ==
           CASE fnArg.second = "none"  -> << first >>
             [] fnArg.second = "empty" -> << first, [id |-> 2, articles |-> << >>] >>
             [] fnArg.second = "text"  ->
                  << first, [id |-> 2, articles |-> << ArticleOf(MaxArticles + 1, {"text"}) >>] >>
     IN  fnRet' = [kind |-> "buildPodcastInput", extractedEmails |-> extractedEmails,
                   text |-> BuildPodcastInput(extractedEmails)]
  /\ UNCHANGED << fnArg, calls, mapArg, mapRet, jobVars, winVars, overlapVars, mailVars, credVars >>

\* -------------------------------------------- the fan-outs on their own
MaxFanMsgs == 5

\* The overrides of a request: none, zero, negative, small and very large.
FanArgs ==
  [kind : {"fanOut"},
   options : [maxEmailsPerNewsletter : {-1, 0, 4, 1000000},
              gmailFetchConcurrency : {-5, 0, 3, 1000000}]]

\* The list call asks for maxResults ids and the provider answers with at
\* most that many: the fetch fan-out starts.
FanList ==
  /\ fnRet = NotApplied
  /\ fnArg.kind = "fanOut"
  /\ \E n \in 0..Min2(MaxFanMsgs, MaxResults(fnArg.options)) :
       calls' = << [sub |-> 1, stage |-> "fetch",
                    c |-> NewCall([j \in 1..n |-> j], FetchConcurrency(fnArg.options))] >>
  /\ fnRet' = [kind |-> "fanOut", maxResults |-> MaxResults(fnArg.options)]
  /\ UNCHANGED << fnArg, mapArg, mapRet, jobVars, winVars, overlapVars, mailVars, credVars >>

\* A message fetch is answered (every message has HTML here) or fails; an
\* extractor call is answered or fails, which the mapper catches.
FanSettles ==
  /\ calls # << >>
  /\ \E w \in Awaiting(calls[1].c) :
       LET c == calls[1].c
           item == c.items[c.workers[w].current + 1]
       IN  \/ /\ calls[1].stage = "fetch"
              /\ \/ calls' = [calls EXCEPT ![1].c =
                                OpFulfil(c, w, [Message(1, item) EXCEPT !.html = TRUE])]
                 \/ calls' = [calls EXCEPT ![1].c = OpReject(c, w, Err("get", item))]
           \/ /\ calls[1].stage = "extract"
              /\ \E value \in {ServiceEmail(item), PlainTextEmail(item)} :
                   calls' = [calls EXCEPT ![1].c = DrainPlain(OpFulfil(c, w, value))]
  /\ UNCHANGED << fnArg, fnRet, mapArg, mapRet, jobVars, winVars, overlapVars, mailVars, credVars >>

\* The fetch fan-out returned: the extract fan-out starts.
FanExtract ==
  /\ calls # << >>
  /\ calls[1].stage = "fetch"
  /\ calls[1].c.settled = "fulfilled"
  /\ calls' = << [sub |-> 1, stage |-> "extract",
                  c |-> DrainPlain(NewCall(AsSeq(calls[1].c), ExtractConcurrency))] >>
  /\ UNCHANGED << fnArg, fnRet, mapArg, mapRet, jobVars, winVars, overlapVars, mailVars, credVars >>

\* ------------------------------------------- the functions on their own
PureInit ==
  /\ fnArg \in IntervalArgs \cup AfterArgs \cup ComposeArgs \cup FanArgs
  /\ fnRet = NotApplied
  /\ calls = << >>
  /\ mapArg = [items |-> << >>, concurrency |-> 0]
  /\ mapRet = [kind |-> "notcalled"]
  /\ emailAccounts = << >>
  /\ newsletters = << >>
  /\ JobIdle
  /\ WinIdle
  /\ CredIdle
  /\ OverlapIdle
  /\ MailIdle

PureNext ==
  \/ ApplyAddInterval \/ ApplyBuildQuery \/ ApplyBuildPodcastInput
  \/ FanList \/ FanSettles \/ FanExtract

SpecPure == PureInit /\ [][PureNext]_vars

\* ---------------------------------------------------------------- claims
Called == calls # << >>
TheCall == calls[1].c

RECURSIVE SumTo(_, _)
SumTo(f, n) == IF n < 0 THEN 0 ELSE f[n] + SumTo(f, n - 1)

\* Mapper calls made, and mapper promises settled, by a call.
OpsStarted(call) == SumTo(call.invoked, Len(call.items) - 1)
OpsSettled(call) == Len(call.completed) + Len(call.failures)

\* What items.map(mapper) awaited one by one would give.
SequentialMap(items) == [i \in 0..(Len(items) - 1) |-> Mapper(items[i + 1], i)]

\* C1: when no mapping operation fails, mapWithConcurrency returns, for every
\* input length, concurrency and completion order, the array a sequential map
\* would produce: length N, element i the mapper's result for input i.
C1_OrderPreserved ==
  /\ mapRet.kind = "return" => mapRet.value = SequentialMap(mapArg.items)
  /\ (Called /\ TheCall.failures = << >> /\ Awaiting(TheCall) = {})
       => mapRet.kind = "return"

\* A call of three inputs and two workers that returned although index 1
\* completed before index 0.
C1_Witness ==
  /\ mapRet.kind = "return"
  /\ Len(mapArg.items) = 3
  /\ mapArg.concurrency = 2
  /\ mapArg.items[1] # mapArg.items[2]
  /\ TheCall.completed[1] = 1

\* C2: at no point of a call with bound K >= 1 are more than K mapping
\* operations started and not yet settled.
C2_AtMostKInFlight ==
  (Called /\ mapArg.concurrency >= 1)
    => /\ OpsStarted(TheCall) - OpsSettled(TheCall) <= mapArg.concurrency
       /\ Cardinality(InFlight(TheCall)) = OpsStarted(TheCall) - OpsSettled(TheCall)

\* Two operations in flight under bound 2 while an input is still unclaimed.
C2_Witness ==
  /\ Called
  /\ mapArg.concurrency = 2
  /\ Cardinality(InFlight(TheCall)) = 2
  /\ Len(mapArg.items) = 3
  /\ Len(TheCall.completed) = 1

\* C3: once a mapping operation has failed the call has failed towards its
\* caller with the error of the first operation that failed, and no result
\* array is returned, whatever fails or completes later.
C3_FirstFailurePropagates ==
  (Called /\ TheCall.failures # << >>)
    => /\ mapRet.kind = "throw"
       /\ mapRet.error = TheCall.failures[1]

\* A second operation failed after the caller had the first one's error.
C3_Witness ==
  /\ Called
  /\ Len(TheCall.failures) >= 2
  /\ mapRet.kind = "throw"
  /\ mapRet.error = TheCall.failures[1]
  /\ TheCall.failures[2] # TheCall.failures[1]

\* -------------------------------------------------- claims about the job
Range(f) == { f[x] : x \in DOMAIN f }

InUser == pc \in {"subs", "list", "fetch", "extract", "synth", "history", "schedule"}

\* Every NewsletterResult recorded so far.
Recorded ==
  UNION { Range(ur.newsletters) : ur \in Range(perUserResults) \cup {userResult} }

IsFailure(r) == "error" \in DOMAIN r
IsSuccess(r) == ~IsFailure(r)
FailureShape == {"newsletterId", "error"}
SuccessShape == {"newsletterId", "fetchedEmailCount", "historyId", "podcast", "nextRun"}

\* The Newsletter rows as the store held them when the job started.
RowsAtLoad == [s \in 1..MaxSubs |-> NewsletterRow(s)]

Issued(op, sub) == \E e \in issued : e.op = op /\ e.sub = sub
ScheduleAsStored(s) ==
  /\ newsletters[s].lastRun = RowsAtLoad[s].lastRun
  /\ newsletters[s].nextRun = RowsAtLoad[s].nextRun

\* A loaded user whose account the job can use.
Eligible(user) ==
  /\ user.emailAccounts # << >>
  /\ GetGmailCredentials(user.emailAccounts[1]).kind = "credentials"

\* C4: a run that failed in its list, fetch, extract, compose, synthesize or
\* persist-history stage has a result of the subscription id and an error
\* message, has not executed the reschedule stage, and has left the stored
\* lastRun and nextRun of the subscription as they were.
C4_FailureLeavesSchedule ==
  \A r \in Recorded :
    (IsFailure(r) /\ r.error.what \in {"list", "get", "synth", "history"})
      => /\ DOMAIN r = FailureShape
         /\ r.newsletterId \in DOMAIN newsletters
         /\ ~Issued("schedule", r.newsletterId)
         /\ ScheduleAsStored(r.newsletterId)

\* One message fetch of two failed, and the run's result is that failure.
C4_Witness ==
  \E r \in Recorded :
    /\ IsFailure(r)
    /\ r.error.what = "get"
    /\ \A id \in 1..2 : [op |-> "get", sub |-> r.newsletterId, id |-> id] \in issued
    /\ ScheduleAsStored(r.newsletterId)
    /\ pc = "responded"

\* C5: a failed run stops nothing: the job is never answered with a
\* subscription's error, every result, failure or not, moves the user's loop
\* on by one newsletter, and when the report is returned every due
\* subscription of every user with a usable account has been started.
C5_FailureStopsNothing ==
  /\ response.status = "error" => response.error.what \in {"findMany", "decrypt"}
  /\ InUser =>
       /\ Len(userResult.newsletters) = nIdx - 1
       /\ \A k \in 1..(nIdx - 1) :
            k <= Len(User.newsletters) /\ Issued("list", User.newsletters[k].id)
  /\ response.status = "success" =>
       \A u \in 1..Len(loaded) :
         Eligible(loaded[u]) =>
           \A k \in 1..Len(loaded[u].newsletters) : Issued("list", loaded[u].newsletters[k].id)

\* The first newsletter of user 1 failed, the second one and the newsletter
\* of user 2 succeeded after it.
C5_Witness ==
  /\ response.status = "success"
  /\ Len(response.result) = 2
  /\ Len(response.result[1].newsletters) = 2
  /\ IsFailure(response.result[1].newsletters[1])
  /\ IsSuccess(response.result[1].newsletters[2])
  /\ Len(response.result[2].newsletters) = 1
  /\ IsSuccess(response.result[2].newsletters[1])

\* lastRun + the cadence's offset, written out.
PlusCadence(t, interval) ==
  CASE interval = "WEEKLY"   -> T(t.day + 7, t.ms)
    [] interval = "BIWEEKLY" -> T(t.day + 14, t.ms)
    [] interval = "MONTHLY"  -> SetUTCMonthPlusOne(t)
    [] OTHER                 -> t

\* C6: after a run that ended in success the stored lastRun is the job's now
\* and the stored nextRun is that lastRun plus the cadence's offset; the two
\* are written together, so every row holds either both old or both new values.
C6_SuccessReschedules ==
  /\ \A r \in Recorded :
       IsSuccess(r) =>
         /\ newsletters[r.newsletterId].lastRun = now
         /\ newsletters[r.newsletterId].nextRun
              = PlusCadence(newsletters[r.newsletterId].lastRun, newsletters[r.newsletterId].interval)
  /\ \A s \in DOMAIN newsletters :
       \/ ScheduleAsStored(s)
       \/ /\ newsletters[s].lastRun = now
          /\ newsletters[s].nextRun = PlusCadence(now, newsletters[s].interval)

\* A weekly and a monthly subscription rescheduled by a run at 08:30.
C6_Witness ==
  /\ now.ms = HalfPastEight
  /\ \E r \in Recorded : IsSuccess(r) /\ newsletters[r.newsletterId].interval = "WEEKLY"
  /\ \E r \in Recorded :
       /\ IsSuccess(r)
       /\ newsletters[r.newsletterId].interval = "MONTHLY"
       /\ newsletters[r.newsletterId].nextRun = T(Date(2024, 2, 15), HalfPastEight)

\* The subscriptions of the scenario: biweekly, last run 2024-01-01T00:00Z.
Jan1Biweekly ==
  { s \in DOMAIN newsletters :
      /\ RowsAtLoad[s].interval = "BIWEEKLY"
      /\ RowsAtLoad[s].lastRun = T(Date(2024, 1, 1), 0) }

\* C7 as stated: the successful run of such a subscription leaves
\* nextRun = 2024-01-15T00:00:00Z and lastRun = the run instant.
C7_Original ==
  \A r \in Recorded :
    (IsSuccess(r) /\ r.newsletterId \in Jan1Biweekly)
      => /\ newsletters[r.newsletterId].lastRun = now
         /\ newsletters[r.newsletterId].nextRun = T(Date(2024, 1, 15), 0)

\* C7 amended: the successful run leaves lastRun = the run instant and
\* nextRun = the run instant + 14 days, whatever lastRun was before; it is
\* a run at 2024-01-01T00:00:00Z that gives nextRun = 2024-01-15T00:00:00Z.
C7_NextRunFromRunInstant ==
  /\ \A r \in Recorded :
       (IsSuccess(r) /\ r.newsletterId \in Jan1Biweekly)
         => /\ newsletters[r.newsletterId].lastRun = now
            /\ newsletters[r.newsletterId].nextRun = T(now.day + 14, now.ms)
            /\ r.nextRun = T(now.day + 14, now.ms)
  /\ AddInterval(T(Date(2024, 1, 1), 0), "BIWEEKLY") = T(Date(2024, 1, 15), 0)

\* The scenario's subscription, run with success on 2024-01-15 at 08:30:
\* its nextRun is 2024-01-29T08:30Z.
C7_Witness ==
  \E r \in Recorded :
    /\ IsSuccess(r)
    /\ r.newsletterId \in Jan1Biweekly
    /\ now = T(Date(2024, 1, 15), HalfPastEight)
    /\ newsletters[r.newsletterId].nextRun = T(Date(2024, 1, 29), HalfPastEight)

\* A result entry is a failure or a success, and says what the run did.
Matches(r) ==
  \/ /\ DOMAIN r = FailureShape
     /\ ScheduleAsStored(r.newsletterId)
  \/ /\ DOMAIN r = SuccessShape
     /\ r.historyId \in 1..Len(histories)
     /\ histories[r.historyId].newsletterId = r.newsletterId
     /\ newsletters[r.newsletterId].lastRun = now
     /\ newsletters[r.newsletterId].nextRun = r.nextRun

InLoadOrder(entry, user) ==
  /\ Len(entry.newsletters) = Len(user.newsletters)
  /\ \A k \in 1..Len(entry.newsletters) :
       /\ entry.newsletters[k].newsletterId = user.newsletters[k].id
       /\ Matches(entry.newsletters[k])

\* C8: the result list of a user with a usable account holds one entry per
\* due subscription, in load order, each a failure (error, no history id, no
\* nextRun) or a success (history id and nextRun, no error) as the run went.
C8_OneEntryPerDueSubscription ==
  \A u \in 1..Len(perUserResults) :
    /\ perUserResults[u].userId = loaded[u].id
    /\ Eligible(loaded[u]) =>
         /\ "error" \notin DOMAIN perUserResults[u]
         /\ InLoadOrder(perUserResults[u], loaded[u])

\* The list call of the first subscription failed, the second one succeeded.
C8_Witness ==
  \E u \in 1..Len(perUserResults) :
    /\ Len(perUserResults[u].newsletters) = 2
    /\ IsFailure(perUserResults[u].newsletters[1])
    /\ perUserResults[u].newsletters[1].error.what = "list"
    /\ IsSuccess(perUserResults[u].newsletters[2])

ReportsUsers ==
  /\ response.userCount = Len(loaded)
  /\ Len(response.result) = response.userCount
  /\ \A u \in 1..Len(loaded) : response.result[u].userId = loaded[u].id

\* C9 as stated: the report has one entry per loaded user and, for every
\* loaded user, ineligible ones included, one entry per due subscription.
C9_Original ==
  response.status = "success" =>
    /\ ReportsUsers
    /\ \A u \in 1..Len(loaded) :
         /\ Len(response.result[u].newsletters) = Len(loaded[u].newsletters)
         /\ \A k \in 1..Len(loaded[u].newsletters) :
              DOMAIN response.result[u].newsletters[k] \in {FailureShape, SuccessShape}

\* C9 amended: the report has one entry per loaded user, in load order; a
\* user with a usable account has one entry per due subscription, a success
\* detail or an error message; a user without one has a user-level error
\* message and no subscription entries.
C9_ReportEnumerates ==
  response.status = "success" =>
    /\ ReportsUsers
    /\ \A u \in 1..Len(loaded) :
         IF Eligible(loaded[u])
           THEN /\ "error" \notin DOMAIN response.result[u]
                /\ Len(response.result[u].newsletters) = Len(loaded[u].newsletters)
                /\ \A k \in 1..Len(loaded[u].newsletters) :
                     /\ response.result[u].newsletters[k].newsletterId = loaded[u].newsletters[k].id
                     /\ DOMAIN response.result[u].newsletters[k] \in {FailureShape, SuccessShape}
           ELSE /\ "error" \in DOMAIN response.result[u]
                /\ response.result[u].newsletters = << >>

\* A report of two users: one without usable account who has due
\* subscriptions, one with a failure and a success.
C9_Witness ==
  /\ response.status = "success"
  /\ Len(loaded) = 2
  /\ ~Eligible(loaded[2])
  /\ loaded[2].newsletters # << >>
  /\ \E r \in Range(response.result[1].newsletters) : IsFailure(r)
  /\ \E r \in Range(response.result[1].newsletters) : IsSuccess(r)

\* A user of the store without Gmail account, or whose Gmail account has no
\* access token.
Ineligible(u) ==
  LET gmail == { a \in Range(emailAccounts[u]) : a.provider = "GMAIL" }
  IN  \A a \in gmail : a.accessToken = ""

\* C10: for a user without Gmail account or without access token the job
\* records a user-level error, makes no provider, extractor or synthesis
\* call, creates no history row and updates no schedule for any of the user's
\* subscriptions, and goes on with the next user.
C10_IneligibleUserSkipped ==
  /\ \A u \in DOMAIN emailAccounts :
       Ineligible(u) =>
         /\ \A e \in issued : OwnerOf(e.sub) # u
         /\ \A i \in 1..Len(calls) : OwnerOf(calls[i].sub) # u
         /\ \A h \in 1..Len(histories) : OwnerOf(histories[h].newsletterId) # u
         /\ \A s \in DOMAIN newsletters : OwnerOf(s) = u => newsletters[s] = RowsAtLoad[s]
         /\ u <= Len(perUserResults) =>
              /\ "error" \in DOMAIN perUserResults[u]
              /\ perUserResults[u].newsletters = << >>
         /\ response.status = "error" => response.error # Err("decrypt", u)
  /\ pc = "users" => Len(perUserResults) = uIdx - 1

\* User 1 has an account without token and due subscriptions; the job went
\* on and the newsletter of user 2 succeeded.
C10_Witness ==
  /\ response.status = "success"
  /\ Len(loaded) = 2
  /\ loaded[1].emailAccounts # << >>
  /\ Ineligible(1)
  /\ loaded[1].newsletters # << >>
  /\ \E r \in Range(response.result[2].newsletters) : IsSuccess(r)

\* C11 (stated as claimed): a failure while setting up one user is recorded
\* against that user and the job goes on: the job is answered with an error
\* only when the discovery query failed, and otherwise with a report that has
\* an entry for every loaded user.
C11_SetupFailureContained ==
  pc = "responded" =>
    \/ /\ response.status = "error"
       /\ response.error.what = "findMany"
    \/ /\ response.status = "success"
       /\ Len(response.result) = Len(loaded)

\* Due at load time, written out: active, and nextRun on the UTC day of now.
DueAtLoad(s) ==
  /\ RowsAtLoad[s].isActive
  /\ RowsAtLoad[s].nextRun.day = now.day
  /\ RowsAtLoad[s].nextRun.ms >= 0
  /\ RowsAtLoad[s].nextRun.ms < MsPerDay

\* C17: the pipeline is started only for subscriptions that were active and
\* had windowStart <= nextRun < windowStart + 24h when loaded: no provider,
\* extractor, synthesis or store call, no history row, no result and no
\* schedule update exists for any other subscription.
C17_OnlyDueSubscriptionsRun ==
  /\ \A e \in issued : DueAtLoad(e.sub)
  /\ \A i \in 1..Len(calls) : DueAtLoad(calls[i].sub)
  /\ \A h \in 1..Len(histories) : DueAtLoad(histories[h].newsletterId)
  /\ \A r \in Recorded : DueAtLoad(r.newsletterId)
  /\ \A s \in DOMAIN newsletters : ~DueAtLoad(s) => newsletters[s] = RowsAtLoad[s]
  /\ pc \notin {"idle", "discover"} =>
       \A u \in 1..Len(loaded) :
         \A k \in 1..Len(loaded[u].newsletters) : DueAtLoad(loaded[u].newsletters[k].id)

\* A run on 2024-01-15 that ended with a success while the store held an
\* inactive subscription planned for that day, one planned for 23:59:59.999
\* of that day (run) and one planned for 00:00 of the next day (not run).
C17_Witness ==
  /\ response.status = "success"
  /\ now.day = Jan15
  /\ \E s \in DOMAIN newsletters :
       ~NewsletterRow(s).isActive /\ NewsletterRow(s).nextRun.day = Jan15
  /\ \E s \in DOMAIN newsletters :
       /\ NewsletterRow(s).nextRun = T(Jan15 + 1, 0)
       /\ Eligible(loaded[OwnerOf(s)])
       /\ newsletters[s] = NewsletterRow(s)
  /\ \E r \in Recorded :
       IsSuccess(r) /\ NewsletterRow(r.newsletterId).nextRun = T(Jan15, MsPerDay - 1)

\* C18 (stated as claimed): every fan-out with a call in flight belongs to
\* the subscription whose run is in progress.
C18_OneSubscriptionAtATime ==
  \A i \in 1..Len(calls) :
    Awaiting(calls[i].c) # {} =>
      /\ pc \in {"fetch", "extract"}
      /\ i = Len(calls)
      /\ calls[i].sub = run.newsletter

HistoriesOf(s) == { h \in 1..Len(histories) : histories[h].newsletterId = s }

\* C19 (stated as claimed): a run whose result is a success has created
\* exactly one history row, a run whose result is a failure has created none.
C19_HistoryPerSuccess ==
  \A r \in Recorded :
    IF IsSuccess(r)
      THEN HistoriesOf(r.newsletterId) = {r.historyId}
      ELSE HistoriesOf(r.newsletterId) = {}

\* C20: the due window of an instant is [s, s + 24h) with s the 00:00:00.000
\* UTC of the instant's UTC date, the instant lies in it, and two instants of
\* one UTC day have the same window.
C20_WindowIsUtcDay ==
  winRet # << NoWindow, NoWindow >> =>
    /\ \A i \in 1..2 :
         /\ winRet[i].start = T(winArg[i].day, 0)
         /\ winRet[i].end = T(winArg[i].day + 1, 0)
         /\ AtOrAfter(winArg[i], winRet[i].start)
         /\ Before(winArg[i], winRet[i].end)
    /\ winArg[1].day = winArg[2].day => winRet[1] = winRet[2]

\* The first and the last millisecond of the leap day have the same window,
\* which ends on 2024-03-01T00:00Z.
C20_Witness ==
  /\ winArg = << T(Date(2024, 2, 29), 0), T(Date(2024, 2, 29), MsPerDay - 1) >>
  /\ winRet[1] = winRet[2]
  /\ winRet[2].end = T(Date(2024, 3, 1), 0)

\* C12 (stated as claimed): every provider call was given a token that was
\* in the store when the call was made: the token the run started with, or a
\* refreshed token whose store write had completed.
C12_PersistedBeforeUse ==
  \A d \in dispatched : d.durable

\* C13: every provider call is given the manager's current credentials at
\* the moment it is made, and a call made after a refresh was applied to the
\* manager is given a refreshed token, never the token the run started with;
\* the calls in progress hold what they were given.
C13_CallsReadCurrent ==
  /\ \A d \in dispatched :
       /\ d.token = d.current
       /\ d.applied => d.token # manager.credentials.accessToken
       /\ d.applied => \E m \in mints : m.new = d.token
  /\ \A op \in provider :
       \E d \in dispatched :
         /\ d.sub = op.sub /\ d.kind = op.kind /\ d.id = op.id
         /\ d.token = op.credentials.accessToken

\* The list call of the first newsletter refreshed the token, and a message
\* fetch of the second newsletter was given that token.
C13_Witness ==
  \E d \in dispatched, m \in mints :
    /\ m.sub = 1 /\ m.kind = "list"
    /\ d.sub = 2 /\ d.kind = "get"
    /\ d.token = m.new
    /\ d.applied

\* C14 (stated as claimed): no token is refreshed at the provider twice.
C14_RefreshedAtMostOnce ==
  \A m1 \in mints, m2 \in mints : m1.old = m2.old => m1 = m2

\* C15 (stated as claimed): when no provider call and no store write is in
\* progress and the write of the token in the manager's snapshot has
\* completed, the store's row holds that token and its expiry.
C15_StoreHoldsSnapshot ==
  (/\ provider = {}
   /\ manager.currentCredentials.accessToken \in written \cup {manager.credentials.accessToken})
    => /\ Decrypt(account.accessToken) = manager.currentCredentials.accessToken
       /\ account.expiresAt = manager.currentCredentials.expiresAt

\* C16 (stated as claimed): after a refresh was refused no provider call is
\* made for the account, and the store's row holds a token only if some
\* refresh obtained it.
C16_RefreshFailureIsFatal ==
  /\ \A d \in dispatched : ~d.afterFail
  /\ \/ Decrypt(account.accessToken) = manager.credentials.accessToken
     \/ \E m \in mints : m.new = Decrypt(account.accessToken)

\* C21: addInterval(from, WEEKLY) is from plus 7 days and
\* addInterval(from, BIWEEKLY) is from plus 14 days, each at the same UTC time
\* of day, and the instant passed in is the same after the call.
C21_WeeksAreDays ==
  (fnRet.kind = "addInterval" /\ fnArg.interval \in {"WEEKLY", "BIWEEKLY"}) =>
    /\ fnRet.next = T(fnArg.from.day + (IF fnArg.interval = "WEEKLY" THEN 7 ELSE 14),
                      fnArg.from.ms)
    /\ fnRet.from = fnArg.from

\* A fortnight from the last millisecond of 28 February 2024 crosses the leap
\* day and ends on 13 March.
C21_Witness ==
  /\ fnRet.kind = "addInterval"
  /\ fnArg.interval = "BIWEEKLY"
  /\ fnArg.from = T(Date(2024, 2, 28), MsPerDay - 1)
  /\ fnRet.next = T(Date(2024, 3, 13), MsPerDay - 1)

\* The number of days of a month (0-based, of the Gregorian calendar).
IsLeap(year) == year % 4 = 0 /\ (year % 100 # 0 \/ year % 400 = 0)
DaysIn(year, month0) ==
  IF month0 = 1 THEN (IF IsLeap(year) THEN 29 ELSE 28)
  ELSE IF month0 \in {3, 5, 8, 10} THEN 30 ELSE 31
\* The month after a month, and the year it falls in.
MonthAfter(year, month0) ==
  IF month0 = 11 THEN [year |-> year + 1, month0 |-> 0]
  ELSE [year |-> year, month0 |-> month0 + 1]

\* C22: addInterval(from, MONTHLY) has the UTC time of day of from and the
\* same date number in the following month when that month has it; when it
\* does not, the result is in the month after that one, as many days into it
\* as the date number exceeds the following month's length. The result is
\* strictly later than from and at most 31 days later.
C22_MonthRollsOver ==
  (fnRet.kind = "addInterval" /\ fnArg.interval = "MONTHLY") =>
    LET c  == Civil(fnArg.from.day)
        r  == Civil(fnRet.next.day)
        m1 == MonthAfter(c.year, c.month0)
        m2 == MonthAfter(m1.year, m1.month0)
        n1 == DaysIn(m1.year, m1.month0)
    IN  /\ fnRet.next.ms = fnArg.from.ms
        /\ IF c.date <= n1
           THEN r = [year |-> m1.year, month0 |-> m1.month0, date |-> c.date]
           ELSE r = [year |-> m2.year, month0 |-> m2.month0, date |-> c.date - n1]
        /\ fnRet.next.day > fnArg.from.day
        /\ fnRet.next.day <= fnArg.from.day + 31
        /\ fnRet.from = fnArg.from

\* A month from 31 January 2024 is 2 March 2024.
C22_Witness ==
  /\ fnRet.kind = "addInterval"
  /\ fnArg.interval = "MONTHLY"
  /\ fnArg.from = T(Date(2024, 1, 31), HalfPastEight)
  /\ fnRet.next = T(Date(2024, 3, 2), HalfPastEight)

\* The subscriptions whose cadence is none of weekly, biweekly, monthly.
UnknownCadence ==
  { s \in DOMAIN newsletters : RowsAtLoad[s].interval \notin {"WEEKLY", "BIWEEKLY", "MONTHLY"} }

\* C23: for a cadence other than weekly, biweekly or monthly addInterval
\* returns its argument, and a successful run of such a subscription is
\* reported as a success whose nextRun is the run instant, the row holding
\* nextRun = lastRun = the run instant.
C23_UnknownCadenceKeepsInstant ==
  /\ \A s \in UnknownCadence :
       pc # "idle" => AddInterval(now, newsletters[s].interval) = now
  /\ \A r \in Recorded :
       (IsSuccess(r) /\ r.newsletterId \in UnknownCadence)
         => /\ DOMAIN r = SuccessShape
            /\ r.nextRun = now
            /\ newsletters[r.newsletterId].lastRun = now
            /\ newsletters[r.newsletterId].nextRun = now

\* Such a subscription, due on 16 January, run with success at 00:00 that day.
C23_Witness ==
  \E r \in Recorded :
    /\ IsSuccess(r)
    /\ r.newsletterId \in UnknownCadence
    /\ now = T(Jan15 + 1, 0)
    /\ newsletters[r.newsletterId].nextRun = now
    /\ newsletters[r.newsletterId].lastRun = now

\* The after: parts of a query.
AfterParts(q) == { q[i].after : i \in { j \in DOMAIN q : "after" \in DOMAIN q[j] } }

\* C24: the list query of a subscription asks for messages after the
\* subscription's lastRun when it is set and after 00:00 UTC of the run day
\* when it is null, in whole seconds; for a subscription never run the query
\* has an after: part, which is neither the epoch nor the run instant.
C24_FetchAfterLastRunOrWindowStart ==
  fnRet.kind = "fetchNewsletterEmails" =>
    LET chosen == IF fnArg.lastRun = NullDate THEN T(fnArg.now.day, 0) ELSE fnArg.lastRun
        secs   == chosen.day * 86400 + (chosen.ms \div 1000)
        nowSec == fnArg.now.day * 86400 + (fnArg.now.ms \div 1000)
    IN  /\ AfterParts(fnRet.q) = (IF secs > 0 THEN {secs} ELSE {})
        /\ (fnArg.lastRun = NullDate /\ fnArg.now.day > 0) =>
              /\ AfterParts(fnRet.q) = {fnArg.now.day * 86400}
              /\ 0 \notin AfterParts(fnRet.q)
              /\ fnArg.now.ms >= 1000 => nowSec \notin AfterParts(fnRet.q)

\* A subscription never run, in the job of 15 January 2024 at 08:30:00.500:
\* its query asks for messages after 00:00 of that day.
C24_Witness ==
  /\ fnRet.kind = "fetchNewsletterEmails"
  /\ fnArg.lastRun = NullDate
  /\ fnArg.now = T(Jan15, HalfPastEight + 500)
  /\ AfterParts(fnRet.q) = {Jan15 * 86400}

\* The extraction fan-out of the run in progress.
Extracting == calls[Len(calls)].c
\* The indices whose ExtractedEmail it has.
Extracted == { Extracting.completed[k] : k \in DOMAIN Extracting.completed }
\* What the extract stage yields for a message from its plain text alone.
Fallback(email) == [id |-> email.id, articles |-> << [text |-> email.text] >>]

\* C25: for a fetched message without an HTML body no call to the extractor
\* is made, and the ExtractedEmail of the message has exactly one article,
\* whose text is the message's plain text.
C25_PlainTextNeedsNoExtractor ==
  /\ \A e \in issued : e.op = "extract" => HasHtml(e.sub, e.id)
  /\ pc = "extract" =>
       \A j \in 0..(Len(Extracting.items) - 1) :
         (~Extracting.items[j + 1].html /\ Extracting.invoked[j] > 0)
           => /\ Extracting.results[j] = Fallback(Extracting.items[j + 1])
              /\ Len(Extracting.results[j].articles) = 1
  /\ pc = "synth" =>
       \A i \in 1..Len(run.emails) :
         ~HasHtml(run.newsletter, run.emails[i].id)
           => Message(run.newsletter, run.emails[i].id).text[1] \in Range(run.text)

\* Two messages fetched, the first with HTML and the second without: the
\* second has its one-article result while the extractor works on the first.
C25_Witness ==
  /\ pc = "extract"
  /\ Len(Extracting.items) = 2
  /\ Extracting.items[1].html /\ ~Extracting.items[2].html
  /\ Extracted = {1}
  /\ Extracting.results[1] = Fallback(Extracting.items[2])
  /\ [op |-> "extract", sub |-> run.newsletter, id |-> Extracting.items[1].id] \in issued

\* C26: the extract stage does not fail: its fan-out never rejects, it
\* returns one ExtractedEmail per fetched message in the order of the
\* messages, and the ExtractedEmail of every message whose extractor call
\* failed is the one-article plain-text one.
C26_ExtractNeverFails ==
  /\ \A r \in Recorded : IsFailure(r) => r.error.what # "extract"
  /\ pc = "extract" =>
       /\ Extracting.failures = << >>
       /\ Extracting.settled # "rejected"
       /\ \A j \in 0..(Len(Extracting.items) - 1) :
            /\ j \in Extracted => Extracting.results[j].id = Extracting.items[j + 1].id
            /\ Extracting.items[j + 1].id \in run.caught
                 => Extracting.results[j] = Fallback(Extracting.items[j + 1])
       /\ Extracting.settled = "fulfilled" =>
            Extracted = 0..(Len(Extracting.items) - 1)
  /\ pc = "synth" =>
       /\ SelectSeq(run.text, LAMBDA t : t[1] = "header")
            = [i \in 1..Len(run.emails) |-> << "header", run.emails[i].id >>]
       /\ \A i \in 1..Len(run.emails) :
            run.emails[i].id \in run.caught
              => /\ Message(run.newsletter, run.emails[i].id).text[1] \in Range(run.text)
                 /\ << "article", run.emails[i].id >> \notin Range(run.text)

\* Two messages with HTML whose extractor calls both failed: the text is
\* composed from both plain texts and synthesis is called.
C26_Witness ==
  /\ pc = "synth"
  /\ Len(run.emails) = 2
  /\ run.caught = { run.emails[1].id, run.emails[2].id }
  /\ \A i \in 1..2 : HasHtml(run.newsletter, run.emails[i].id)
  /\ \A i \in 1..2 : Message(run.newsletter, run.emails[i].id).text[1] \in Range(run.text)

\* How many times a token occurs in a string.
Count(text, token) == Cardinality({ k \in DOMAIN text : text[k] = token })

\* C27: in the composed text an article with fetched_content is rendered
\* with it, under fetched_title if it has one and else under its title, and
\* its text does not appear; an article without fetched_content is rendered
\* with its text; an article with neither leaves nothing in the text, and
\* there is one article separator fewer than articles rendered.
C27_FetchedContentPreferred ==
  fnRet.kind = "buildPodcastInput" =>
    LET out  == fnRet.text
        arts == fnRet.extractedEmails[1].articles
        N(f, a) == Count(out, << f, a >>)
        rendered == { a \in DOMAIN arts : arts[a].fetched_content # << >> \/ arts[a].text # << >> }
        contents == SelectSeq(out, LAMBDA t : t[1] \in {"text", "fetched_content"})
    IN  /\ \A a \in DOMAIN arts :
             /\ arts[a].fetched_content # << >> =>
                  /\ N("fetched_content", a) = 1
                  /\ N("text", a) = 0
                  /\ arts[a].fetched_title # << >> =>
                       N("fetched_title", a) = 1 /\ N("title", a) = 0
                  /\ arts[a].fetched_title = << >> =>
                       N("title", a) = (IF arts[a].title # << >> THEN 1 ELSE 0)
             /\ (arts[a].fetched_content = << >> /\ arts[a].text # << >>) =>
                  N("text", a) = 1
             /\ a \notin rendered =>
                  \A f \in {"text", "title", "fetched_content", "fetched_title"} : N(f, a) = 0
        /\ Count(out, << "\n\n---\n\n", 0 >>) = Max2(0, Cardinality(rendered) - 1)
        /\ Count(out, << "\n\n===\n\n", 0 >>) = Len(fnRet.extractedEmails) - 1
        /\ \A i, j \in DOMAIN contents : i < j => contents[i][2] < contents[j][2]

\* An article with nothing, then one with text, title and what was fetched,
\* then an email of plain text: no article separator, the fetched title and
\* content rendered, one email separator.
C27_Witness ==
  /\ fnRet.kind = "buildPodcastInput"
  /\ fnArg.shapes = << {}, {"text", "title", "fetched_content", "fetched_title"} >>
  /\ fnRet.text = << << "header", 1 >>, << "\n\n", 0 >>, << "### ", 0 >>, << "fetched_title", 2 >>,
                     << "\n\n", 0 >>, << "fetched_content", 2 >>, << "\n\n===\n\n", 0 >>,
                     << "header", 2 >>, << "\n\n", 0 >>, << "text", 3 >> >>

\* The stage before each stage of a run.
StageBefore ==
  [list |-> "subs", fetch |-> "list", extract |-> "fetch", synth |-> "extract",
   history |-> "synth", schedule |-> "history"]

\* C28: in every step of the job, a stage of a subscription's run is
\* entered only from the stage before it (list, fetch, extract, compose and
\* synthesize, persist-history, reschedule) and left for the next stage or
\* for the end of the run; the list, synthesis, history and schedule calls
\* are made on entering their stage, for the subscription being run, and
\* never a second time; message fetches are made only after the list call
\* succeeded and extractor calls only in the extract stage; synthesis is
\* called when no fetch or extraction of the run is pending; the schedule
\* call is made when the RunHistory row of the run exists.
C28_StagesInOrder ==
  [][ LET started == issued' \ issued
      IN  /\ (pc' # pc /\ pc' \in DOMAIN StageBefore) => pc = StageBefore[pc']
          /\ (pc' # pc /\ pc \in DOMAIN StageBefore /\ pc' \notin DOMAIN StageBefore)
                => pc' = "subs"
          /\ \A e \in started :
               /\ e.op \in {"list", "synth", "history", "schedule"} =>
                    /\ pc' = e.op /\ pc = StageBefore[e.op]
                    /\ e.sub = run'.newsletter
               /\ e.op = "get" => [op |-> "list", sub |-> e.sub, id |-> 0] \in issued
               /\ e.op = "extract" => pc' = "extract" /\ e.sub = run'.newsletter
          /\ (pc' # pc /\ pc' \in {"list", "synth", "history", "schedule"}) =>
               /\ [op |-> pc', sub |-> run'.newsletter, id |-> 0] \in started
          /\ (pc' # pc /\ pc' = "synth") =>
               /\ run'.text = BuildPodcastInput(AsSeq(calls[Len(calls)].c))
               /\ \A k \in DOMAIN calls :
                    calls[k].sub = run.newsletter =>
                      /\ calls[k].c.settled = "fulfilled"
                      /\ Awaiting(calls[k].c) = {}
               /\ \A k \in DOMAIN calls' : calls'[k].sub # run.newsletter
          /\ (pc' # pc /\ pc' = "schedule") =>
               /\ run'.historyId \in DOMAIN histories'
               /\ histories'[run'.historyId].newsletterId = run'.newsletter
    ]_<< pc, issued >>

\* A run that fetched two messages, called the extractor, synthesised and
\* wrote its history row, and now waits for the schedule update.
C28_Witness ==
  /\ pc = "schedule"
  /\ Len(run.emails) = 2
  /\ \A op \in {"list", "synth", "history", "schedule"} :
       [op |-> op, sub |-> run.newsletter, id |-> 0] \in issued
  /\ \A id \in 1..2 : [op |-> "get", sub |-> run.newsletter, id |-> id] \in issued
  /\ \E e \in issued : e.op = "extract" /\ e.sub = run.newsletter
  /\ histories[run.historyId].newsletterId = run.newsletter

\* C29: in a call of mapWithConcurrency no two workers hold the same value
\* of the cursor and no index has its mapping operation invoked twice; while
\* no operation has failed the indices invoked are exactly those below the
\* cursor, and a call that returned invoked each of 0..N-1 once; a call with
\* no input invokes nothing and returns the empty array.
C29_EachIndexOnce ==
  Called =>
    LET n == Len(TheCall.items)
    IN  /\ \A v, w \in DOMAIN TheCall.workers :
             v # w => TheCall.workers[v].current # TheCall.workers[w].current
        /\ \A i \in 0..(n - 1) : TheCall.invoked[i] <= 1
        /\ TheCall.failures = << >> =>
             \A i \in 0..(n - 1) :
               TheCall.invoked[i] = (IF i < TheCall.nextIndex THEN 1 ELSE 0)
        /\ mapRet.kind = "return" =>
             /\ \A i \in 0..(n - 1) : TheCall.invoked[i] = 1
             /\ OpsStarted(TheCall) = n
        /\ n = 0 =>
             /\ OpsStarted(TheCall) = 0
             /\ mapRet = [kind |-> "return", value |-> << >>]

\* Three inputs under three workers, completed in the order 2, 0, 1 and
\* returned: each index was invoked once.
C29_Witness ==
  /\ Called
  /\ mapArg.concurrency = 3
  /\ TheCall.completed = << 2, 0, 1 >>
  /\ mapRet.kind = "return"
  /\ \A i \in 0..2 : TheCall.invoked[i] = 1

\* How many times each call has invoked its mapper for each index.
Invocations == [k \in DOMAIN calls |-> calls[k].c.invoked]

\* C30: once a mapping operation of a call has failed, no step of the call
\* invokes the mapping operation for a further index: the operations already
\* started settle, and nothing is started for the indices still unclaimed.
C30_NothingStartedAfterFailure ==
  [][ (Called /\ TheCall.failures # << >>)
        => \A i \in 0..(Len(TheCall.items) - 1) : TheCall'.invoked[i] = TheCall.invoked[i]
    ]_Invocations

\* Values an override may take, around the limits and far from them.
Overrides == (-3..60) \cup {-1000000, 1000000}

\* The two bounds computed from the overrides are the clamps of them.
ClampsHold ==
  \A m, k \in Overrides :
    LET o == [maxEmailsPerNewsletter |-> m, gmailFetchConcurrency |-> k]
    IN  /\ MaxResults(o) = (IF m < 1 THEN 1 ELSE IF m > 50 THEN 50 ELSE m)
        /\ FetchConcurrency(o) = Min2(20, Max2(1, k))

\* C31: whatever integers the overrides are, the list call asks for between
\* 1 and 50 ids, the fetch fan-out has at most min(20, max(1,
\* gmailFetchConcurrency)) fetches in flight, and the extract fan-out has at
\* most 4 extractor calls in flight.
C31_OverridesAreClamped ==
  /\ ClampsHold
  /\ fnRet.kind = "fanOut" =>
       /\ fnRet.maxResults \in 1..50
       /\ Len(calls[1].c.items) <= fnRet.maxResults
       /\ calls[1].stage = "fetch" =>
            Cardinality(InFlight(calls[1].c))
              <= Min2(20, Max2(1, fnArg.options.gmailFetchConcurrency))
       /\ calls[1].stage = "extract" => Cardinality(InFlight(calls[1].c)) <= 4

\* Overrides of a million: five messages were fetched, four extractor calls
\* are in flight and the fifth message waits for a worker.
C31_Witness ==
  /\ fnRet.kind = "fanOut"
  /\ fnArg.options.gmailFetchConcurrency = 1000000
  /\ fnRet.maxResults = 50
  /\ calls[1].stage = "extract"
  /\ Len(calls[1].c.items) = 5
  /\ Cardinality(InFlight(calls[1].c)) = 4
  /\ calls[1].c.invoked[4] = 0

\* C32: a provider call starts by renewing the token exactly when the
\* credentials it is given have an expiry that, less the buffer, has passed
\* and a refresh token, and otherwise goes to the API with the credentials as
\* given; a token is renewed only by a call that started so; and a call that
\* renewed the token ends by handing the refreshed credentials back (they
\* reach updateIfRefreshed), while a call that did not renew hands none back.
C32_RefreshedIffRenewed ==
  [][ /\ \A op \in provider' \ provider :
           op.phase \in {"refresh", "api"} /\ op.refreshed = NoRefreshed =>
             /\ op.phase = "refresh" <=>
                  /\ op.credentials.expiresAt # NullExpiry
                  /\ op.credentials.expiresAt.of \in expired
                  /\ op.credentials.refreshToken
             /\ op.credentials = manager.currentCredentials
      /\ \A m \in mints' \ mints :
           \E op \in provider :
             /\ op.phase = "refresh"
             /\ m.old = op.credentials.accessToken
             /\ [op EXCEPT !.phase = "api",
                           !.refreshed = [accessToken |-> m.new, expiresAt |-> ExpiryOf(m.new)]]
                  \in provider'
      /\ \A op \in provider \ provider' :
           op.phase = "api" =>
             (op.refreshed # NoRefreshed <=> [op EXCEPT !.phase = "write"] \in provider')
    ]_<< provider, mints >>

\* ------------------------------------------------ the job run to its end

\* The position of the job in its loops, growing with every step it takes.
JobPosition ==
  LET perUser == 8 * MaxSubs + 10
      inUser  == uIdx * perUser + 1 + (nIdx - 1) * 8
  IN  CASE pc = "idle"      -> 0
        [] pc = "discover"  -> 1
        [] pc = "users"     -> uIdx * perUser
        [] pc = "subs"      -> inUser
        [] pc = "list"      -> inUser + 1
        [] pc = "fetch"     -> inUser + 2
        [] pc = "extract"   -> inUser + 3
        [] pc = "synth"     -> inUser + 4
        [] pc = "history"   -> inUser + 5
        [] pc = "schedule"  -> inUser + 6
        [] pc = "responded" -> (MaxUsers + 2) * perUser

\* The items of the pending fan-outs whose mapper has not settled.
RECURSIVE Unsettled(_)
Unsettled(cs) ==
  IF cs = << >>
    THEN 0
    ELSE Len(Head(cs).c.items) - Len(Head(cs).c.completed) - Len(Head(cs).c.failures)
           + Unsettled(Tail(cs))

\* A variant of the job: it grows with every step and is bounded.
Variant == JobPosition * 64 + (63 - Unsettled(calls))

\* Every step of the job, and every settlement of a call it left behind,
\* makes the variant grow: no run goes on for ever, it ends having answered.
JobTerminates ==
  [][ /\ Variant' > Variant
      /\ Unsettled(calls') \in 0..63
      /\ JobPosition' <= (MaxUsers + 2) * (8 * MaxSubs + 10) ]_vars

\* The discovery query of the run rejected.
DiscoveryFailed == response.status = "error" /\ response.error.what = "findMany"

\* The job has answered with the aggregate report, one result per loaded user.
Reported ==
  /\ response.status = "success"
  /\ response.userCount = Len(loaded)
  /\ Len(response.result) = Len(loaded)

\* C33: when every external call settles and discovery succeeds, the job
\* run returns its aggregate report with a result for each loaded user,
\* whatever the users, subscriptions, messages and failures. The run has
\* returned when it has answered; it answers by JobTerminates, and the
\* answer of a run whose discovery succeeded has to be the report.
C33_JobReturnsReport ==
  pc = "responded" /\ ~DiscoveryFailed => Reported

\* No loaded user has an account whose stored token decrypt rejects.
NoThrows ==
  \A u \in 1..Len(loaded) :
    loaded[u].emailAccounts # << >> =>
      GetGmailCredentials(loaded[u].emailAccounts[1]).kind # "throw"

\* With tokens that all decrypt, the answer after discovery is the report.
ReportWhenTokensDecrypt ==
  pc = "responded" /\ ~DiscoveryFailed /\ NoThrows => Reported

\* ------------------------------------------------ the job runs that follow

\* The instants at which a later job run may start: later on the UTC day of
\* this run, and on the days that follow.
LaterInstants ==
  { t \in { T(now.day, HalfPastEight + 1), T(now.day, MsPerDay - 1), T(now.day + 1, 0),
             T(now.day + 7, HalfPastEight) } :
      Before(now, t) }

\* The subscriptions the discovery query of a job run started at t loads,
\* on the store as it is now.
SelectedAt(t) ==
  LET users == FindMany(emailAccounts, newsletters, WindowStart(t), WindowEnd(t))
  IN  UNION { { row.id : row \in Range(user.newsletters) } : user \in Range(users) }

\* The cadences of the schema.
Cadences == { "WEEKLY", "BIWEEKLY", "MONTHLY" }

\* The subscriptions whose run of this job succeeded.
SucceededSubs == { r.newsletterId : r \in { x \in Recorded : IsSuccess(x) } }

\* addInterval of an instant lies at or after the end of its UTC day, for
\* the cadences, month ends and year ends included.
NextRunPastWindow ==
  \A from \in CalInstants, interval \in Cadences :
    AtOrAfter(AddInterval(from, interval), WindowEnd(from))

\* C35: after a successful run of a weekly, biweekly or monthly
\* subscription the stored nextRun lies at or after the end of the due window
\* of the run, and no job run started later on the same UTC day, once this
\* run is over, selects the subscription again.  The stored nextRun is
\* read each time a pipeline has returned and when the job has answered.
C35_OneSuccessPerDay ==
  /\ NextRunPastWindow
  /\ pc \in {"subs", "responded"} =>
       \A s \in SucceededSubs :
         RowsAtLoad[s].interval \in Cadences =>
           /\ newsletters[s].nextRun = AddInterval(now, RowsAtLoad[s].interval)
           /\ AtOrAfter(newsletters[s].nextRun, WindowEnd(now))
  /\ pc = "responded" /\ SucceededSubs # {} =>
       \A t \in { x \in LaterInstants : x.day = now.day } :
         LET selected == SelectedAt(t)
         IN  \A s \in SucceededSubs :
               RowsAtLoad[s].interval \in Cadences => s \notin selected

\* A weekly and a monthly subscription have succeeded in a run started at
\* half past eight.
C35_Witness ==
  /\ pc = "responded"
  /\ now = T(Jan15, HalfPastEight)
  /\ \E s \in SucceededSubs : RowsAtLoad[s].interval = "WEEKLY"
  /\ \E s \in SucceededSubs : RowsAtLoad[s].interval = "MONTHLY"

\* ------------------------------------------ two job runs in one process
\* Two POST /create-users-podcasts requests are handled by one process:
\* each has its own now, users and loop position, both use the one store,
\* and a step of one may be taken at any await of the other. A run notes
\* which of the subscriptions it loads the other run had failed by then
\* (retried): the code has no such note, it is what the claims speak of. The stages of
\* processNewsletter before the history row (list, fetch, extract, compose,
\* synthesize) write nothing to the store: they are one step, "pipeline".
JobRuns == 1..2

\* The due subscriptions the run goes through, users in load order.
RECURSIVE DueIds(_)
DueIds(users) ==
  IF users = << >>
    THEN << >>
    ELSE LET user == Head(users)
             ids == IF Eligible(user)
                      THEN [k \in 1..Len(user.newsletters) |-> user.newsletters[k].id]
                      ELSE << >>
         IN  ids \o DueIds(Tail(users))

OverlapInit ==
  /\ \E n \in 1..MaxUsers :
       /\ emailAccounts = [u \in 1..n |-> AccountRows(u, "ok")]
       /\ newsletters = [s \in { r \in 1..MaxSubs : OwnerOf(r) <= n } |-> NewsletterRow(s)]
  /\ calls = << >>
  /\ mapArg = [items |-> << >>, concurrency |-> 0]
  /\ mapRet = [kind |-> "notcalled"]
  /\ JobIdle
  /\ WinIdle
  /\ CredIdle
  /\ PureIdle
  /\ OverlapIdle
  /\ MailIdle

OverlapUnchanged ==
  UNCHANGED << calls, mapArg, mapRet, emailAccounts, pc, now, opts, loaded, uIdx, nIdx,
               perUserResults, userResult, run, issued, response, winVars, credVars, pureVars,
               mailVars >>

\* The request arrives: const now = new Date(), and the discovery query.
OverlapStart(r) ==
  /\ runs[r].pc = "idle"
  /\ \E t \in NowChoices : runs' = [runs EXCEPT ![r].now = t, ![r].pc = "discover"]
  /\ UNCHANGED << newsletters, histories >>
  /\ OverlapUnchanged

\* processNewsletter of the run is over: the loops go on, or res.json.
NextSubscription(r, record) ==
  [record EXCEPT !.todo = Tail(@),
                 !.pc = IF Tail(record.todo) = << >> THEN "responded" ELSE "pipeline"]

\* processNewsletter of the run caught an error.
FailedSubscription(r, record) ==
  [NextSubscription(r, record) EXCEPT !.failed = @ \cup {Head(record.todo)}]

OverlapDiscover(r) ==
  /\ runs[r].pc = "discover"
  /\ LET users == FindMany(emailAccounts, newsletters, WindowStart(runs[r].now),
                           WindowEnd(runs[r].now))
         todo  == DueIds(users)
         again == { s \in DOMAIN newsletters :
                      /\ \E k \in DOMAIN todo : todo[k] = s
                      /\ \E other \in JobRuns \ {r} : s \in runs[other].failed }
     IN  runs' = [runs EXCEPT ![r].todo = todo, ![r].retried = again,
                              ![r].pc = IF todo = << >> THEN "responded" ELSE "pipeline"]
  /\ UNCHANGED << newsletters, histories >>
  /\ OverlapUnchanged

\* The stages up to createPodcastFromText are through, or one of them threw.
OverlapPipeline(r) ==
  /\ runs[r].pc = "pipeline"
  /\ \/ runs' = [runs EXCEPT ![r].pc = "history"]
     \/ runs' = [runs EXCEPT ![r] = FailedSubscription(r, @)]
  /\ UNCHANGED << newsletters, histories >>
  /\ OverlapUnchanged

\* saveNewsletterHistory: the row is created, or the create rejects.
OverlapHistory(r) ==
  /\ runs[r].pc = "history"
  /\ LET s == Head(runs[r].todo)
     IN  \/ /\ histories' = Append(histories, HistoryRow(s, << >>, PodcastFor(s)))
            /\ runs' = [runs EXCEPT ![r].histories = @ \cup {s}, ![r].pc = "schedule"]
         \/ /\ runs' = [runs EXCEPT ![r] = FailedSubscription(r, @)]
            /\ UNCHANGED histories
  /\ UNCHANGED newsletters
  /\ OverlapUnchanged

\* updateNewsletterSchedule: the row is updated, or the update rejects.
OverlapSchedule(r) ==
  /\ runs[r].pc = "schedule"
  /\ LET s == Head(runs[r].todo)
     IN  \/ /\ newsletters' = [newsletters EXCEPT
                                 ![s] = Rescheduled(@, runs[r].now, NewsletterRow(s).interval)]
            /\ runs' = [runs EXCEPT ![r] = [NextSubscription(r, @) EXCEPT
                                              !.scheduled = @ \cup {s}]]
         \/ /\ runs' = [runs EXCEPT ![r] = FailedSubscription(r, @)]
            /\ UNCHANGED newsletters
  /\ UNCHANGED histories
  /\ OverlapUnchanged

OverlapNext ==
  \E r \in JobRuns :
    \/ OverlapStart(r) \/ OverlapDiscover(r) \/ OverlapPipeline(r)
    \/ OverlapHistory(r) \/ OverlapSchedule(r)

SpecOverlap == OverlapInit /\ [][OverlapNext]_vars

\* The two runs were started on the same UTC day: one due window.
SameDueWindow == runs[1].now # NullDate /\ runs[1].now.day = runs[2].now.day

\* C36: when two job runs overlap in one process, a due subscription is
\* completed by at most one of them: at most one RunHistory record and one
\* schedule update are made for a subscription per due window.
C36_CompletedByOneRun ==
  SameDueWindow =>
    \A s \in DOMAIN newsletters :
      /\ ~(s \in runs[1].histories /\ s \in runs[2].histories)
      /\ ~(s \in runs[1].scheduled /\ s \in runs[2].scheduled)
      /\ Cardinality({ h \in 1..Len(histories) : histories[h].newsletterId = s }) <= 1

\* The subscriptions the discovery query of run r has just loaded.
JustLoadedBy(r) ==
  IF runs[r].pc = "discover" /\ runs'[r].pc # "discover"
    THEN { runs'[r].todo[k] : k \in DOMAIN runs'[r].todo }
    ELSE {}

\* C34: a subscription whose run failed keeps its nextRun, and a later job
\* run selects it exactly when the UTC-day window of that run contains the
\* retained nextRun: a job run on the same UTC day does, a job run on
\* another day does not.
C34_RetriedOnDueDayOnly ==
  [][ \A failing, later \in JobRuns :
        failing # later /\ runs[later].pc = "discover" /\ runs'[later].pc # "discover" =>
          \A s \in runs[failing].failed \ runs[failing].scheduled :
            /\ newsletters[s].nextRun = NewsletterRow(s).nextRun
            /\ s \in JustLoadedBy(later) <=>
                 /\ AtOrAfter(newsletters[s].nextRun, WindowStart(runs[later].now))
                 /\ Before(newsletters[s].nextRun, WindowEnd(runs[later].now))
            /\ runs[later].now.day = runs[failing].now.day => s \in JustLoadedBy(later)
            /\ runs[later].now.day # runs[failing].now.day => s \notin JustLoadedBy(later)
    ]_runs

\* A run has failed two subscriptions and is over; a run on the same UTC
\* day that discovered after the failures has loaded both again and has
\* written the history row of one.
C34_Witness ==
  \E failing, later \in JobRuns :
    /\ runs[failing].pc = "responded"
    /\ Cardinality(runs[failing].failed) >= 2
    /\ runs[later].now.day = runs[failing].now.day
    /\ runs[later].retried = runs[failing].failed
    /\ runs[later].retried \cap runs[later].histories # {}

\* -------------------------------------- one subscription over the weeks
\* Job runs that follow one another process one weekly subscription while
\* messages arrive in the mailbox. Time passes between the instant a run
\* takes as now and its list call, and between runs. The stages after the
\* list call neither read the mailbox nor write lastRun before the schedule
\* update: they are one step.
MailSub ==
  CHOOSE s \in 1..MaxSubs :
    /\ NewsletterRow(s).isActive
    /\ NewsletterRow(s).interval = "WEEKLY"
    /\ \A r \in 1..(s - 1) : ~(NewsletterRow(r).isActive /\ NewsletterRow(r).interval = "WEEKLY")

\* The instants of the clock, in order: before the due day, the due instant,
\* 400 ms and 5 s after it, and the same a week later.
Ticks ==
  << T(Jan15 - 5, 0),
     T(Jan15, HalfPastEight), T(Jan15, HalfPastEight + 400), T(Jan15, HalfPastEight + 5000),
     T(Jan15 + 7, HalfPastEight), T(Jan15 + 7, HalfPastEight + 5000) >>

\* The provider's after: operator, as the list call is assumed to work: the
\* messages whose timestamp is later than the after-instant.
LaterThan(instant, afterUnixSeconds) ==
  LET seconds == instant.day * (MsPerDay \div 1000) + (instant.ms \div 1000)
  IN  seconds > afterUnixSeconds \/ (seconds = afterUnixSeconds /\ instant.ms % 1000 > 0)

\* The messages of the mailbox a query matches.
Matching(inbox, q) ==
  { m \in inbox : \A i \in DOMAIN q : "after" \in DOMAIN q[i] => LaterThan(Ticks[m], q[i].after) }

MailInit ==
  /\ emailAccounts = [u \in 1..OwnerOf(MailSub) |-> AccountRows(u, "ok")]
  /\ newsletters = [s \in {MailSub} |-> NewsletterRow(s)]
  /\ calls = << >>
  /\ mapArg = [items |-> << >>, concurrency |-> 0]
  /\ mapRet = [kind |-> "notcalled"]
  /\ JobIdle
  /\ WinIdle
  /\ CredIdle
  /\ PureIdle
  /\ OverlapIdle
  /\ MailIdle

MailUnchanged ==
  UNCHANGED << calls, mapArg, mapRet, emailAccounts, histories, pc, now, opts, loaded, uIdx,
               nIdx, perUserResults, userResult, run, issued, response, winVars, credVars,
               pureVars, overlapVars >>

\* Time passes; a run in progress is over within the day it started on.
MailTick ==
  /\ mail.clock < Len(Ticks)
  /\ mail.pc # "idle" => Ticks[mail.clock + 1].day = mail.now.day
  /\ mail' = [mail EXCEPT !.clock = @ + 1]
  /\ UNCHANGED newsletters
  /\ MailUnchanged

\* A message of a selected sender arrives: its timestamp is the clock's.
MailArrives ==
  /\ mail.clock \notin mail.inbox
  /\ mail' = [mail EXCEPT !.inbox = @ \cup {mail.clock}]
  /\ UNCHANGED newsletters
  /\ MailUnchanged

\* A job run starts, const now = new Date(), and loads the subscription:
\* fetchNewsletterEmails issues the list call.
MailRunStarts ==
  /\ mail.pc = "idle"
  /\ LET t == Ticks[mail.clock]
         users == FindMany(emailAccounts, newsletters, WindowStart(t), WindowEnd(t))
     IN  /\ MailSub \in UNION { { row.id : row \in Range(user.newsletters) } : user \in Range(users) }
         /\ \E o \in OptChoices :
              mail' = [mail EXCEPT !.pc = "list", !.now = t, !.maxResults = MaxResults(o)]
  /\ UNCHANGED newsletters
  /\ MailUnchanged

\* The list call answers, with what the mailbox holds by then: up to
\* maxResults of the messages matching the query.
MailListOk ==
  /\ mail.pc = "list"
  /\ LET row == newsletters[MailSub]
         q == BuildGmailQuery(<< "a@x" >>, AfterUnixSeconds(row.lastRun, WindowStart(mail.now)))
         matching == Matching(mail.inbox, q)
     IN  \E ids \in SUBSET matching :
           /\ Cardinality(ids) = Min2(Cardinality(matching), mail.maxResults)
           /\ mail' = [mail EXCEPT !.pc = "process", !.emails = ids]
  /\ UNCHANGED newsletters
  /\ MailUnchanged

\* The messages are fetched, extracted, composed and synthesized, and the
\* history row is written: updateNewsletterSchedule stores lastRun = now.
MailRunSucceeds ==
  /\ mail.pc = "process"
  /\ newsletters' = [newsletters EXCEPT
                       ![MailSub] = Rescheduled(@, mail.now, NewsletterRow(MailSub).interval)]
  /\ mail' = [mail EXCEPT !.pc = "idle", !.emails = {}, !.fetched = Append(@, [now |-> mail.now, emails |-> mail.emails])]
  /\ MailUnchanged

\* Some stage of the run throws: the schedule is left as it was.
MailRunFails ==
  /\ mail.pc \in {"list", "process"}
  /\ mail' = [mail EXCEPT !.pc = "idle", !.emails = {}]
  /\ UNCHANGED newsletters
  /\ MailUnchanged

MailNext ==
  \/ MailTick \/ MailArrives \/ MailRunStarts \/ MailListOk \/ MailRunSucceeds \/ MailRunFails

SpecMail == MailInit /\ [][MailNext]_vars

\* C37: no message is in the fetched set of two different successful runs
\* of the subscription, also when it arrives between the job instant of a
\* run, which becomes lastRun, and the list call of that run.
C37_FetchedOnce ==
  \A i, j \in DOMAIN mail.fetched :
    i # j => mail.fetched[i].emails \cap mail.fetched[j].emails = {}

\* What is fetched twice has a timestamp later than the whole second of the
\* job instant of the first run that fetched it: a message that was there
\* by then is in the fetched set of one successful run at most.
FetchedTwiceOnlyAfterJobInstant ==
  \A i, j \in DOMAIN mail.fetched :
    i < j => \A m \in mail.fetched[i].emails \cap mail.fetched[j].emails :
               LaterThan(Ticks[m], AfterUnixSeconds(mail.fetched[i].now, NullDate))

\* ----------------------------------------------- a run without messages
\* No message of the subscription was fetched or sent to the extractor.
NoMessageCalls(s) == ~\E e \in issued : e.sub = s /\ e.op \in {"get", "extract"}

\* The successful results of runs whose list call returned no message.
EmptySuccesses == { r \in Recorded : IsSuccess(r) /\ r.fetchedEmailCount = 0 }

\* C38: when the list call returns no message the run is not a failure: the
\* fetch and the extraction fan-out are fulfilled at once without a call,
\* the composed text is empty, the synthesis collaborator is invoked with
\* it, and when it succeeds a history row with fetched-message count 0 is
\* created and lastRun and nextRun are advanced as for any other run.  The
\* rows are read each time a pipeline has returned and when the job has
\* answered.
C38_EmptyRunIsARun ==
  /\ pc = "fetch" /\ calls[Len(calls)].c.items = << >> =>
       /\ calls[Len(calls)].c.settled = "fulfilled"
       /\ NoMessageCalls(run.newsletter)
  /\ pc = "extract" /\ run.emails = << >> =>
       /\ calls[Len(calls)].c.settled = "fulfilled"
       /\ NoMessageCalls(run.newsletter)
  /\ pc = "synth" /\ run.emails = << >> =>
       /\ run.text = << >>
       /\ Issued("synth", run.newsletter)
       /\ NoMessageCalls(run.newsletter)
  /\ pc = "schedule" /\ run.emails = << >> =>
       /\ histories[run.historyId] = HistoryRow(run.newsletter, << >>, PodcastFor(run.newsletter))
       /\ histories[run.historyId].fetchedEmailCount = 0
  /\ pc \in {"subs", "responded"} =>
       \A r \in EmptySuccesses :
         /\ NoMessageCalls(r.newsletterId)
         /\ histories[r.historyId].newsletterId = r.newsletterId
         /\ histories[r.historyId].fetchedEmailCount = 0
         /\ newsletters[r.newsletterId] =
              Rescheduled(RowsAtLoad[r.newsletterId], now, RowsAtLoad[r.newsletterId].interval)
         /\ r.nextRun = newsletters[r.newsletterId].nextRun

\* The job has answered: one subscription succeeded without messages,
\* another with messages, both rescheduled from now.
C38_Witness ==
  /\ pc = "responded"
  /\ EmptySuccesses # {}
  /\ \E r \in Recorded \ EmptySuccesses :
       /\ IsSuccess(r)
       /\ newsletters[r.newsletterId].lastRun = now
  /\ \A r \in EmptySuccesses : newsletters[r.newsletterId].lastRun = now

====
